---- MODULE Spec2Model ----
(***************************************************************************)
(* Data-access and lifecycle layer of the call-log management application. *)
(*                                                                         *)
(*   SpecCache   the process-wide MongoClient cache (get_mongo_client,     *)
(*               MongoRepository.__init__ / close) used by concurrent UI   *)
(*               sessions, one thread per session, no lock in the code.    *)
(*   SpecMaster  the master store of the two repository backends           *)
(*               (master_create, master_replace_all).                      *)
(*   SpecBackup  run_mongo_backup and its retention step.                  *)
(*   SpecRestore run_mongo_backup and run_mongo_restore on the databases   *)
(*               of one server and the archives of one folder.             *)
(*   SpecVerify  verify_key as a function of its inputs and the secret.    *)
(*   SpecActivation  application starts, the activation form and the       *)
(*               persisted activation record.                              *)
(*   SpecLogout  perform_logout with its backup, and the Logout button.    *)
(*   SpecConfig  the single-document configuration stores.                 *)
(*   SpecUsers   register_user, user_create and the login page.            *)
(*   SpecMasterOps  create, update, delete and replace_all on the master   *)
(*               store.                                                    *)
(*   SpecReports calllog_create, calllog_list and the Reports pages.       *)
(*   SpecOverlap backup and restore runs of concurrent sessions and their  *)
(*               temporary directories.                                    *)
(*                                                                         *)
(* Every specification keeps the variables of the other parts at their     *)
(* initial values.                                                         *)
(***************************************************************************)
EXTENDS Integers, Sequences, FiniteSets, TLC

VARIABLES
    \* ---- connection cache (src/storage/mongo_repo.py) ----
    mongo_clients,  \* _mongo_clients: uri -> handle, NoHandle when the key is absent
    nextHandle,     \* the next MongoClient object to be constructed
    closed,         \* closed[h]: MongoClient h has been close()d
    pc,             \* pc[s]: the line session s's thread is about to execute
    uri,            \* uri[s]: the mongo_uri argument of the running call
    client,         \* client[s]: the local variable `client` of get_mongo_client
    exc,            \* exc[s]: the exception caught at line 32
    ret,            \* ret[s]: the value get_mongo_client returned to __init__
    repo,           \* repo[s]: self._client of the session's active_repo, NoHandle if None
    keys,           \* keys[s]: keys_to_remove of the running close()
    released,       \* released[s]: a close() of the session's repository has finished
    freed,          \* handles on which some close() has finished
    again,          \* again[s]: the running close() was called on a handle already freed
    outcome,        \* outcome[s]: how the session's last call ended
    \* ---- master store (src/storage/mongo_repo.py, src/storage/mssql_repo.py) ----
    backend,        \* which repository implementation is active
    master,         \* the master collection / dbo.Master table: a set of documents
    nextId,         \* the next _id / SrNo the backend hands out
    lastCall,       \* the last repository call and its arguments
    lastResult,     \* what that call returned or raised
    \* ---- backup (src/utils/backup_service.py) ----
    bpc,            \* the line run_mongo_backup is about to execute
    bdb,            \* db_name of the running backup
    bstamp,         \* timestamp of the running backup
    bbefore,        \* the archives under backup_root when the running backup was called
    bmade,          \* the running backup's dump has created temp_dump_dir
    toolPresent,    \* the bundled mongodump executable exists
    tempDirs,       \* temporary dump directories existing under backup_root
    archives,       \* .zip files existing under backup_root
    clock,          \* wall clock, in seconds
    bresult,        \* (success, message) returned by run_mongo_backup
    \* ---- restore (src/utils/backup_service.py) ----
    store,          \* store[db]: the collections of database db and their documents
    rpc,            \* the line run_mongo_restore is about to execute
    rdb,            \* db_name of the running restore
    rzip,           \* the archive at zip_path
    extractTo,      \* the directory temp_restore_extract, or NoDir
    target_dir,     \* the local variable target_dir
    rinvoked,       \* the directory the running restore has started mongorestore on
    rbefore,        \* store[db_name] when the running restore was called
    rresult,        \* (success, message) returned by run_mongo_restore
    restores,       \* how many times run_mongo_restore has been called
    \* ---- activation (src/utils/activation.py, src/utils/helpers.py) ----
    stSecret,       \* what st.secrets.get("ACTIVATION_SECRET") gives
    envSecret,      \* what os.getenv("ACTIVATION_SECRET") gives
    machine,        \* the machine the application runs on
    activation,     \* the persisted activation record, None when there is none
    app_activated,  \* st.session_state.app_activated
    apc,            \* how far the session's start has come
    lastVerify,     \* the last call of verify_key: its arguments and how it ended
    \* ---- logout (src/utils/logout.py, src/app.py) ----
    lgpc,           \* where the session's logout stands
    logging_out,    \* st.session_state.logging_out
    app_settings,   \* st.session_state.app_settings, None when it was never stored
    ignore,         \* "Ignore and Logout Anyway" was clicked: the button is True in the next run
    session_ended,  \* how the session was ended: "no", "cleared" or "logged_out"
    lhandle,        \* self._client of the repository the session held when it logged out
    lbackups,       \* the results of the run_mongo_backup calls of this logout, oldest first
    \* ---- configuration documents (src/storage/*_repo.py, src/utils/settings_store.py) ----
    emailConfig,    \* the emailConfig collection
    emailTable,     \* the rows of dbo.EmailConfig
    miscData,       \* the miscData collection
    appConfig,      \* appConfig[db]: the appConfig collection of database db
    cfgLast,        \* cfgLast[n]: the value last saved to store n, None after a delete
    cfgOverwritten, \* the stores in which a save has replaced a different value
    cfgResult,      \* how the last configuration call ended
    \* ---- users (src/auth.py, src/storage/mongo_repo.py, src/pages/login_page.py) ----
    userDocs,       \* the documents of the users collection
    nextUserId,     \* the next _id the collection hands out
    upc,            \* upc[s]: the line of register_user session s is about to execute
    uarg,           \* uarg[s]: the username and password of the running register_user
    ulast,          \* the last register_user or user_create call that ended, and how
    upage,          \* the login page as last rendered
    \* ---- call log and reports (src/storage/mongo_repo.py, src/views/reports_page.py) ----
    calllog,        \* the documents of the callLogEntries collection
    nextLogId,      \* the next _id the collection hands out
    rpage,          \* the Reports page as last rendered
    \* ---- overlapping backup and restore runs (src/utils/backup_service.py) ----
    orun,           \* orun[r]: the position and the temporary directory of run r
    ofs,            \* the temporary directories that exist, each with the run that wrote it
    oharm           \* the runs whose directory another run deleted or overwrote

cacheVars == <<mongo_clients, nextHandle, closed, pc, uri, client, exc, ret, repo,
               keys, released, freed, again, outcome>>
masterVars == <<backend, master, nextId, lastCall, lastResult>>
backupVars == <<bpc, bdb, bstamp, bbefore, bmade, toolPresent, tempDirs, archives, clock, bresult>>
restoreVars == <<store, rpc, rdb, rzip, extractTo, target_dir, rinvoked, rbefore, rresult,
                 restores>>
activationVars == <<stSecret, envSecret, machine, activation, app_activated, apc, lastVerify>>
logoutVars == <<lgpc, logging_out, app_settings, ignore, session_ended, lhandle, lbackups>>
configVars == <<emailConfig, emailTable, miscData, appConfig, cfgLast, cfgOverwritten, cfgResult>>
userVars == <<userDocs, nextUserId, upc, uarg, ulast, upage>>
reportVars == <<calllog, nextLogId, rpage>>
overlapVars == <<orun, ofs, oharm>>
restVars == <<logoutVars, configVars, userVars, reportVars, overlapVars>>
vars == <<cacheVars, masterVars, backupVars, restoreVars, activationVars, restVars>>

----------------------------------------------------------------------------
(* Bounds of the model *)

MaxHandles == 3
MaxRecords == 2
MaxId == 4
MaxClock == 4
\* The number of call log entries created
MaxLogs == 2

MaxRestores == 2

----------------------------------------------------------------------------
(* Connection cache *)

\* The UI sessions of the server process, one script thread each
Sessions == {"s1", "s2"}
Uris == {"uriA", "uriB"}
NoHandle == 0
Handles == 1..MaxHandles
NoUri == "none"
NoExc == "none"
NoOutcome == [at |-> "none", result |-> "none"]

GmcPcs == {"gmc_check", "gmc_create", "gmc_fast_return", "gmc_read", "gmc_ping",
           "gmc_return", "gmc_except"}
ClosePcs == {"close_client", "close_keys", "close_del"}

CacheInit ==
    /\ mongo_clients = [u \in Uris |-> NoHandle]
    /\ nextHandle = 1
    /\ closed = [h \in Handles |-> FALSE]
    /\ pc = [s \in Sessions |-> "idle"]
    /\ uri = [s \in Sessions |-> NoUri]
    /\ client = [s \in Sessions |-> NoHandle]
    /\ exc = [s \in Sessions |-> NoExc]
    /\ ret = [s \in Sessions |-> NoHandle]
    /\ repo = [s \in Sessions |-> NoHandle]
    /\ keys = [s \in Sessions |-> {}]
    /\ released = [s \in Sessions |-> FALSE]
    /\ freed = {}
    /\ again = [s \in Sessions |-> FALSE]
    /\ outcome = [s \in Sessions |-> NoOutcome]

\* Every running get_mongo_client constructs at most one MongoClient.
InFlight == Cardinality({t \in Sessions : pc[t] \in GmcPcs})

\* get_repository -> MongoRepository(mongo_uri, db_name) -> get_mongo_client(mongo_uri)
CallGetRepository(s, u) ==
    /\ pc[s] = "idle"
    /\ repo[s] = NoHandle
    /\ nextHandle + InFlight <= MaxHandles
    /\ pc' = [pc EXCEPT ![s] = "gmc_check"]
    /\ uri' = [uri EXCEPT ![s] = u]
    /\ outcome' = [outcome EXCEPT ![s] = NoOutcome]
    /\ UNCHANGED <<mongo_clients, nextHandle, closed, client, exc, ret, repo, keys,
                   released, freed, again>>
    /\ UNCHANGED <<masterVars, backupVars, restoreVars, activationVars, restVars>>

\* line 21: if mongo_uri not in _mongo_clients
GmcCheck(s) ==
    /\ pc[s] = "gmc_check"
    /\ pc' = [pc EXCEPT ![s] = IF mongo_clients[uri[s]] = NoHandle
                                 THEN "gmc_create" ELSE "gmc_read"]
    /\ UNCHANGED <<mongo_clients, nextHandle, closed, uri, client, exc, ret, repo, keys,
                   released, outcome, freed, again>>
    /\ UNCHANGED <<masterVars, backupVars, restoreVars, activationVars, restVars>>

\* line 22: _mongo_clients[mongo_uri] = MongoClient(mongo_uri)
GmcCreate(s) ==
    /\ pc[s] = "gmc_create"
    /\ mongo_clients' = [mongo_clients EXCEPT ![uri[s]] = nextHandle]
    /\ nextHandle' = nextHandle + 1
    /\ pc' = [pc EXCEPT ![s] = "gmc_fast_return"]
    /\ UNCHANGED <<closed, uri, client, exc, ret, repo, keys, released, outcome, freed,
                   again>>
    /\ UNCHANGED <<masterVars, backupVars, restoreVars, activationVars, restVars>>

\* The call ends by raising e out of `at`: nothing is returned, the session has no
\* repository.
Raised(s, at, e) ==
    /\ pc' = [pc EXCEPT ![s] = "idle"]
    /\ outcome' = [outcome EXCEPT ![s] = [at |-> at, result |-> e]]
    /\ uri' = [uri EXCEPT ![s] = NoUri]
    /\ client' = [client EXCEPT ![s] = NoHandle]
    /\ exc' = [exc EXCEPT ![s] = NoExc]
    /\ ret' = [ret EXCEPT ![s] = NoHandle]

\* get_mongo_client returns h to MongoRepository.__init__ (line 60).
Returned(s, h) ==
    /\ pc' = [pc EXCEPT ![s] = "init_index"]
    /\ ret' = [ret EXCEPT ![s] = h]
    /\ client' = [client EXCEPT ![s] = NoHandle]
    /\ exc' = [exc EXCEPT ![s] = NoExc]

\* line 23: return _mongo_clients[mongo_uri]  (a second lookup of the cache)
GmcFastReturn(s) ==
    /\ pc[s] = "gmc_fast_return"
    /\ IF mongo_clients[uri[s]] = NoHandle
       THEN Raised(s, "get_mongo_client", "KeyError")
       ELSE Returned(s, mongo_clients[uri[s]]) /\ UNCHANGED <<uri, outcome>>
    /\ UNCHANGED <<mongo_clients, nextHandle, closed, repo, keys, released, freed, again>>
    /\ UNCHANGED <<masterVars, backupVars, restoreVars, activationVars, restVars>>

\* line 25: client = _mongo_clients[mongo_uri]
GmcRead(s) ==
    /\ pc[s] = "gmc_read"
    /\ IF mongo_clients[uri[s]] = NoHandle
       THEN Raised(s, "get_mongo_client", "KeyError")
       ELSE /\ client' = [client EXCEPT ![s] = mongo_clients[uri[s]]]
            /\ pc' = [pc EXCEPT ![s] = "gmc_ping"]
            /\ UNCHANGED <<uri, exc, ret, outcome>>
    /\ UNCHANGED <<mongo_clients, nextHandle, closed, repo, keys, released, freed, again>>
    /\ UNCHANGED <<masterVars, backupVars, restoreVars, activationVars, restVars>>

\* What a command on handle h can do: a closed MongoClient raises InvalidOperation;
\* an open one answers or fails with a connectivity error.
CommandResults(h) ==
    IF closed[h] THEN {"InvalidOperation"} ELSE {"ok", "NetworkError"}

\* line 30: client.admin.command("ping", serverSelectionTimeoutMS=2000)
GmcPing(s) ==
    /\ pc[s] = "gmc_ping"
    /\ \E r \in CommandResults(client[s]) :
         IF r = "ok"
         THEN /\ pc' = [pc EXCEPT ![s] = "gmc_return"]
              /\ UNCHANGED exc
         ELSE /\ pc' = [pc EXCEPT ![s] = "gmc_except"]
              /\ exc' = [exc EXCEPT ![s] = r]
    /\ UNCHANGED <<mongo_clients, nextHandle, closed, uri, client, ret, repo, keys,
                   released, outcome, freed, again>>
    /\ UNCHANGED <<masterVars, backupVars, restoreVars, activationVars, restVars>>

\* line 31: return client
GmcReturn(s) ==
    /\ pc[s] = "gmc_return"
    /\ Returned(s, client[s])
    /\ UNCHANGED <<mongo_clients, nextHandle, closed, uri, repo, keys, released, outcome,
                   freed, again>>
    /\ UNCHANGED <<masterVars, backupVars, restoreVars, activationVars, restVars>>

RecreatesOnAnyError(e) == TRUE

\* line 37: isinstance(e, InvalidOperation)
Recreates(e) == e = "InvalidOperation"

\* lines 32-44: the except clause
GmcExcept(s) ==
    /\ pc[s] = "gmc_except"
    /\ IF Recreates(exc[s])
       THEN /\ mongo_clients' = [mongo_clients EXCEPT ![uri[s]] = nextHandle]
            /\ Returned(s, nextHandle)
            /\ nextHandle' = nextHandle + 1
            /\ UNCHANGED <<uri, outcome>>
       ELSE /\ Raised(s, "get_mongo_client", exc[s])
            /\ UNCHANGED <<mongo_clients, nextHandle>>
    /\ UNCHANGED <<closed, repo, keys, released, freed, again>>
    /\ UNCHANGED <<masterVars, backupVars, restoreVars, activationVars, restVars>>

\* lines 60-69: self._client = get_mongo_client(...); the three create_index calls.
\* When they succeed the constructor returns and active_repo is set.
InitIndexes(s) ==
    /\ pc[s] = "init_index"
    /\ \E r \in CommandResults(ret[s]) :
         IF r = "ok"
         THEN /\ repo' = [repo EXCEPT ![s] = ret[s]]
              /\ pc' = [pc EXCEPT ![s] = "idle"]
              /\ outcome' = [outcome EXCEPT ![s] = [at |-> "__init__", result |-> "ok"]]
              /\ uri' = [uri EXCEPT ![s] = NoUri]
              /\ ret' = [ret EXCEPT ![s] = NoHandle]
              /\ UNCHANGED <<client, exc>>
         ELSE /\ Raised(s, "__init__", r)
              /\ UNCHANGED repo
    /\ released' = [released EXCEPT ![s] = FALSE]
    /\ UNCHANGED <<mongo_clients, nextHandle, closed, keys, freed, again>>
    /\ UNCHANGED <<masterVars, backupVars, restoreVars, activationVars, restVars>>

\* Any repository operation of a connected session (master_list, calllog_create, ...)
UseRepository(s) ==
    /\ pc[s] = "idle"
    /\ repo[s] # NoHandle
    /\ \E r \in CommandResults(repo[s]) :
         outcome' = [outcome EXCEPT ![s] = [at |-> "use", result |-> r]]
    /\ UNCHANGED <<mongo_clients, nextHandle, closed, pc, uri, client, exc, ret, repo,
                   keys, released, freed, again>>
    /\ UNCHANGED <<masterVars, backupVars, restoreVars, activationVars, restVars>>

\* MongoRepository.close is entered
EnterClose(s) ==
    /\ pc[s] = "idle"
    /\ repo[s] # NoHandle
    /\ pc' = [pc EXCEPT ![s] = "close_client"]
    /\ again' = [again EXCEPT ![s] = repo[s] \in freed]
    /\ outcome' = [outcome EXCEPT ![s] = NoOutcome]
    /\ UNCHANGED <<mongo_clients, nextHandle, closed, uri, client, exc, ret, repo, keys,
                   released, freed>>

\* repo_obj.close() is called (src/app.py:256)
CallClose(s) ==
    /\ EnterClose(s)
    /\ UNCHANGED <<masterVars, backupVars, restoreVars, activationVars, restVars>>

\* line 79: self._client.close()
CloseClient(s) ==
    /\ pc[s] = "close_client"
    /\ closed' = [closed EXCEPT ![repo[s]] = TRUE]
    /\ pc' = [pc EXCEPT ![s] = "close_keys"]
    /\ UNCHANGED <<mongo_clients, nextHandle, uri, client, exc, ret, repo, keys,
                   released, outcome, freed, again>>
    /\ UNCHANGED <<masterVars, backupVars, restoreVars, activationVars, restVars>>

KeysToRemoveAll(cache, h) == {k \in Uris : cache[k] # NoHandle}

\* line 82: keys_to_remove = [k for k, v in _mongo_clients.items() if v is self._client]
KeysToRemove(cache, h) == {k \in Uris : cache[k] = h}

CloseKeys(s) ==
    /\ pc[s] = "close_keys"
    /\ keys' = [keys EXCEPT ![s] = KeysToRemove(mongo_clients, repo[s])]
    /\ pc' = [pc EXCEPT ![s] = "close_del"]
    /\ UNCHANGED <<mongo_clients, nextHandle, closed, uri, client, exc, ret, repo,
                   released, outcome, freed, again>>
    /\ UNCHANGED <<masterVars, backupVars, restoreVars, activationVars, restVars>>

\* lines 83-84: for k in keys_to_remove: del _mongo_clients[k]
CloseDel(s) ==
    /\ pc[s] = "close_del"
    /\ mongo_clients' = [u \in Uris |-> IF u \in keys[s] THEN NoHandle
                                         ELSE mongo_clients[u]]
    /\ outcome' = [outcome EXCEPT ![s] =
                     [at |-> IF again[s] THEN "close_again" ELSE "close",
                      result |-> IF \E k \in keys[s] : mongo_clients[k] = NoHandle
                                 THEN "KeyError" ELSE "ok"]]
    /\ keys' = [keys EXCEPT ![s] = {}]
    /\ released' = [released EXCEPT ![s] = TRUE]
    /\ freed' = freed \cup {repo[s]}
    /\ again' = [again EXCEPT ![s] = FALSE]
    /\ pc' = [pc EXCEPT ![s] = "idle"]
    /\ UNCHANGED <<nextHandle, closed, uri, client, exc, ret, repo>>
    /\ UNCHANGED <<masterVars, backupVars, restoreVars, activationVars, restVars>>

\* The session gives up its reference to the repository object.
ForgetRepository(s) ==
    /\ repo' = [repo EXCEPT ![s] = NoHandle]
    /\ released' = [released EXCEPT ![s] = FALSE]
    /\ outcome' = [outcome EXCEPT ![s] = NoOutcome]
    /\ UNCHANGED <<mongo_clients, nextHandle, closed, pc, uri, client, exc, ret, keys,
                   freed, again>>

\* src/app.py:261: st.session_state.active_repo = None, after the close
DropRepository(s) ==
    /\ pc[s] = "idle"
    /\ repo[s] # NoHandle
    /\ released[s]
    /\ ForgetRepository(s)
    /\ UNCHANGED <<masterVars, backupVars, restoreVars, activationVars, restVars>>

CacheNext ==
    \E s \in Sessions :
        \/ \E u \in Uris : CallGetRepository(s, u)
        \/ GmcCheck(s)
        \/ GmcCreate(s)
        \/ GmcFastReturn(s)
        \/ GmcRead(s)
        \/ GmcPing(s)
        \/ GmcReturn(s)
        \/ GmcExcept(s)
        \/ InitIndexes(s)
        \/ UseRepository(s)
        \/ CallClose(s)
        \/ CloseClient(s)
        \/ CloseKeys(s)
        \/ CloseDel(s)
        \/ DropRepository(s)

----------------------------------------------------------------------------
(* Claims about the connection cache *)

Created == 1..(nextHandle - 1)

\* A step of session s, which is inside the code region `region`.
StepsIn(s, region) == pc[s] \in region /\ pc'[s] # pc[s]

\* C1: get_mongo_client never returns a closed handle; in particular the acquire
\* that follows a close() returns a new, usable handle.
C1_AcquireReturnsLiveHandle ==
    [][\A s \in Sessions :
         (StepsIn(s, GmcPcs) /\ pc'[s] = "init_index") => ~closed'[ret'[s]]]_vars

\* C2: concurrent get_mongo_client calls are serialized: as long as no handle has
\* been closed, every handle ever created is the one stored in the cache (one
\* handle per connection string, none left outside the cache unclosed), and a
\* caller is handed the handle the cache holds.
C2_AcquireSerialized ==
    (\A h \in Created : ~closed[h]) =>
        /\ \A h \in Created : \E u \in Uris : mongo_clients[u] = h
        /\ \A s \in Sessions : pc[s] = "init_index" => mongo_clients[uri[s]] = ret[s]

\* C3: a repository that has not called close() itself never holds a closed
\* handle, whatever the other repositories sharing the handle do.
C3_BorrowedHandleStaysLive ==
    \A s \in Sessions :
        (repo[s] # NoHandle /\ ~released[s] /\ pc[s] \notin ClosePcs)
            => ~closed[repo[s]]

\* C4: when the liveness probe fails with an error other than "the handle is
\* closed", get_mongo_client raises that same error, constructs no handle and
\* leaves the cache as it is.
C4_ProbeErrorPropagates ==
    [][\A s \in Sessions :
         (StepsIn(s, {"gmc_except"}) /\ exc[s] # "InvalidOperation") =>
            /\ outcome'[s] = [at |-> "get_mongo_client", result |-> exc[s]]
            /\ pc'[s] = "idle"
            /\ ret'[s] = NoHandle
            /\ repo'[s] = NoHandle
            /\ nextHandle' = nextHandle
            /\ mongo_clients' = mongo_clients]_vars

C4_Witness ==
    \E s \in Sessions :
        /\ outcome[s] = [at |-> "get_mongo_client", result |-> "NetworkError"]
        /\ \E u \in Uris : mongo_clients[u] # NoHandle /\ ~closed[mongo_clients[u]]

\* C5: a close() called on a handle that an earlier close() has already released
\* changes neither the cache nor any handle, and ends without an error.
C5_ReleaseIdempotent ==
    [][\A s \in Sessions :
         (StepsIn(s, ClosePcs) /\ again[s]) =>
            /\ mongo_clients' = mongo_clients
            /\ closed' = closed
            /\ (pc'[s] = "idle" =>
                    outcome'[s] = [at |-> "close_again", result |-> "ok"])]_vars

C5_Witness ==
    \E s \in Sessions :
        /\ pc[s] = "idle"
        /\ outcome[s] = [at |-> "close_again", result |-> "ok"]
        /\ \E u \in Uris : mongo_clients[u] \notin {NoHandle, repo[s]}

\* C6: a close() never removes from the cache, and never closes, a handle other
\* than the one its repository borrowed.
C6_ReleaseSparesNewerHandle ==
    [][\A s \in Sessions : \A u \in Uris :
         (StepsIn(s, ClosePcs) /\ mongo_clients[u] \notin {NoHandle, repo[s]}) =>
            /\ mongo_clients'[u] = mongo_clients[u]
            /\ closed'[mongo_clients[u]] = closed[mongo_clients[u]]]_vars

----------------------------------------------------------------------------
(* Master store *)

\* Python values of a record field: None, or a str given as its characters.
None == [t |-> "None"]
Str(s) == [t |-> "str", s |-> s]

\* The whitespace of the texts of the model
Whitespace == {" ", "\t"}

RECURSIVE LStrip(_)
LStrip(s) == IF s # <<>> /\ Head(s) \in Whitespace THEN LStrip(Tail(s)) ELSE s

RECURSIVE RStrip(_)
RStrip(s) ==
    IF s # <<>> /\ s[Len(s)] \in Whitespace THEN RStrip(SubSeq(s, 1, Len(s) - 1)) ELSE s

\* _normalize_str: None stays None; the text is stripped; an empty text becomes None
normalize_str(v) ==
    IF v = None THEN None
    ELSE LET s == RStrip(LStrip(v.s))
         IN  IF s = <<>> THEN None ELSE Str(s)

\* Field values the callers pass. Name stands for the eleven descriptive fields,
\* which the code treats alike.
RawPhones == {None, Str(<<" ">>), Str(<<"1">>), Str(<<" ", "1", " ">>), Str(<<"2">>)}
RawNames == {Str(<<"a">>), Str(<<"b", " ">>)}
MasterRecords == [MobileNo : RawPhones, Name : RawNames]

RecordLists == UNION {[1..n -> MasterRecords] : n \in 0..MaxRecords}

\* _master_to_doc, and the parameter list of the INSERT statements
master_to_doc(record) ==
    [MobileNo |-> normalize_str(record.MobileNo), Name |-> normalize_str(record.Name)]

WithId(doc, id) == [id |-> id, MobileNo |-> doc.MobileNo, Name |-> doc.Name]
Content(d) == [MobileNo |-> d.MobileNo, Name |-> d.Name]

\* The unique index on MobileNo (a missing field is indexed as null), and the
\* UNIQUE constraint of dbo.Master
Duplicate(coll, doc) == \E d \in coll : d.MobileNo = doc.MobileNo

MongoInsertOneNoIndex(coll, doc, id) ==
    [coll |-> coll \cup {WithId(doc, id)}, err |-> "none"]

\* Collection.insert_one on a collection with the unique index of __init__
MongoInsertOne(coll, doc, id) ==
    IF Duplicate(coll, doc)
    THEN [coll |-> coll, err |-> "DuplicateKeyError"]
    ELSE [coll |-> coll \cup {WithId(doc, id)}, err |-> "none"]

\* Collection.insert_many(docs, ordered=False): every document is attempted, the
\* ones that violate the index are skipped and reported in a BulkWriteError
RECURSIVE MongoInsertManyUnordered(_, _, _)
MongoInsertManyUnordered(coll, docs, id) ==
    IF docs = <<>> THEN [coll |-> coll, err |-> "none"]
    ELSE LET one == MongoInsertOne(coll, Head(docs), id)
             rest == MongoInsertManyUnordered(one.coll, Tail(docs), id + 1)
         IN  [coll |-> rest.coll,
              err |-> IF one.err # "none" \/ rest.err # "none"
                      THEN "BulkWriteError" ELSE "none"]

DeleteNothing(coll) == coll

\* delete_many({}) and DELETE FROM [dbo].[Master]
DeleteAll(coll) == {}

\* MongoRepository.master_create
MongoMasterCreate(coll, record, id) ==
    LET res == MongoInsertOne(coll, master_to_doc(record), id)
    IN  [coll |-> res.coll,
         result |-> IF res.err = "none" THEN [status |-> "ok", value |-> id]
                    ELSE [status |-> res.err, value |-> 0]]

\* MongoRepository.master_replace_all
MongoMasterReplaceAll(coll, records, id) ==
    LET cleared == DeleteAll(coll)
    IN  IF records = <<>>
        THEN [coll |-> cleared, result |-> [status |-> "ok", value |-> 0]]
        ELSE LET docs == [i \in 1..Len(records) |-> master_to_doc(records[i])]
                 res == MongoInsertManyUnordered(cleared, docs, id)
             IN  [coll |-> res.coll,
                  result |-> IF res.err = "none"
                             THEN [status |-> "ok", value |-> Len(docs)]
                             ELSE [status |-> res.err, value |-> 0]]

\* One INSERT INTO [dbo].[Master]: MobileNo is NOT NULL UNIQUE
MssqlInsert(table, row, id) ==
    IF row.MobileNo = None \/ Duplicate(table, row)
    THEN [coll |-> table, err |-> "IntegrityError"]
    ELSE [coll |-> table \cup {WithId(row, id)}, err |-> "none"]

\* The INSERT loop of MSSQLRepository.master_replace_all: it stops at the first
\* statement that raises
RECURSIVE MssqlInsertLoop(_, _, _)
MssqlInsertLoop(table, rows, id) ==
    IF rows = <<>> THEN [coll |-> table, err |-> "none"]
    ELSE LET one == MssqlInsert(table, Head(rows), id)
         IN  IF one.err # "none" THEN one
             ELSE MssqlInsertLoop(one.coll, Tail(rows), id + 1)

\* MSSQLRepository.master_create: commit, or rollback and re-raise
MssqlMasterCreate(table, record, id) ==
    LET res == MssqlInsert(table, master_to_doc(record), id)
    IN  IF res.err = "none"
        THEN [coll |-> res.coll, result |-> [status |-> "ok", value |-> id]]
        ELSE [coll |-> table, result |-> [status |-> res.err, value |-> 0]]

\* MSSQLRepository.master_replace_all: one transaction; a failure rolls the DELETE
\* back together with the inserts
MssqlMasterReplaceAll(table, records, id) ==
    LET rows == [i \in 1..Len(records) |-> master_to_doc(records[i])]
        res == MssqlInsertLoop(DeleteAll(table), rows, id)
    IN  IF res.err = "none"
        THEN [coll |-> res.coll, result |-> [status |-> "ok", value |-> Len(records)]]
        ELSE [coll |-> table, result |-> [status |-> res.err, value |-> 0]]

\* The backends get_repository can select
Backends == {"mongodb", "mssql"}

MasterInit(backends) ==
    /\ backend \in backends
    /\ master = {}
    /\ nextId = 1
    /\ lastCall = [op |-> "none"]
    /\ lastResult = [status |-> "none", value |-> 0]

\* repo.master_create(record)
MasterCreate(record) ==
    /\ nextId <= MaxId
    /\ LET res == IF backend = "mongodb"
                  THEN MongoMasterCreate(master, record, nextId)
                  ELSE MssqlMasterCreate(master, record, nextId)
       IN  /\ master' = res.coll
           /\ lastResult' = res.result
    /\ nextId' = nextId + 1
    /\ lastCall' = [op |-> "master_create", record |-> record]
    /\ UNCHANGED <<backend, cacheVars, backupVars, restoreVars, activationVars, restVars>>

\* repo.master_replace_all(records)
MasterReplaceAll(records) ==
    /\ nextId + Len(records) <= MaxId + 1
    /\ LET res == IF backend = "mongodb"
                  THEN MongoMasterReplaceAll(master, records, nextId)
                  ELSE MssqlMasterReplaceAll(master, records, nextId)
       IN  /\ master' = res.coll
           /\ lastResult' = res.result
    /\ nextId' = nextId + Len(records)
    /\ lastCall' = [op |-> "master_replace_all", records |-> records]
    /\ UNCHANGED <<backend, cacheVars, backupVars, restoreVars, activationVars, restVars>>

MasterNext ==
    \/ \E record \in MasterRecords : MasterCreate(record)
    \/ \E records \in RecordLists : MasterReplaceAll(records)

----------------------------------------------------------------------------
(* Claims about the master store *)

ConflictErrors == {"DuplicateKeyError", "IntegrityError"}

HoldersOf(coll, phone) == {d \in coll : d.MobileNo = phone}

\* C7: a master_create whose phone number, once normalized, is already held by a
\* record fails with the backend's uniqueness error and leaves the store as it
\* was: one record for that phone number, the earlier one.
C7_DuplicateCreateConflicts ==
    [][(lastCall'.op = "master_create"
          /\ HoldersOf(master, normalize_str(lastCall'.record.MobileNo)) # {}) =>
            /\ lastResult'.status \in ConflictErrors
            /\ master' = master
            /\ Cardinality(HoldersOf(master',
                   normalize_str(lastCall'.record.MobileNo))) = 1]_vars

C7_Witness ==
    /\ lastCall.op = "master_create"
    /\ lastResult.status \in ConflictErrors
    /\ \E d \in master :
         /\ d.MobileNo = normalize_str(lastCall.record.MobileNo)
         /\ d.MobileNo # lastCall.record.MobileNo
         /\ d.Name # normalize_str(lastCall.record.Name)

\* The store holds exactly the documents of `records`, all of them inserted by the
\* last call.
HoldsExactly(records) ==
    /\ Cardinality(master) = Len(records)
    /\ \A d \in master : d.id >= nextId - Len(records)
    /\ \A i \in 1..Len(records) :
         \E d \in master : Content(d) = master_to_doc(records[i])

\* C8 as stated: master_replace_all(records) returns len(records) and leaves
\* exactly those records in the store, for every list and every prior content.
C8_ReplaceAllExact ==
    lastCall.op = "master_replace_all" =>
        /\ lastResult = [status |-> "ok", value |-> Len(lastCall.records)]
        /\ HoldsExactly(lastCall.records)

\* The phone numbers of the list are present and pairwise distinct once normalized.
DistinctPhones(records) ==
    /\ \A i \in 1..Len(records) : normalize_str(records[i].MobileNo) # None
    /\ \A i, j \in 1..Len(records) :
         i # j => normalize_str(records[i].MobileNo) # normalize_str(records[j].MobileNo)

\* C8 amended: the same, for every list whose phone numbers are present and
\* pairwise distinct after normalization (the empty list included).
C8_ReplaceAllExactWhenDistinct ==
    (lastCall.op = "master_replace_all" /\ DistinctPhones(lastCall.records)) =>
        /\ lastResult = [status |-> "ok", value |-> Len(lastCall.records)]
        /\ HoldsExactly(lastCall.records)

C8_Witness ==
    /\ lastCall.op = "master_replace_all"
    /\ Len(lastCall.records) = 2
    /\ DistinctPhones(lastCall.records)
    /\ lastCall.records[1].MobileNo # normalize_str(lastCall.records[1].MobileNo)
    /\ nextId > 3
    /\ lastResult.status = "ok"

\* C9: a master_replace_all that fails leaves the store empty.
C9_FailedReplaceAllLeavesEmpty ==
    (lastCall.op = "master_replace_all" /\ lastResult.status # "ok") => master = {}

----------------------------------------------------------------------------
(* Backup *)

\* db_name values the sessions are configured with
DbNames == {"CLM_Backup_Live", "CallLogDB"}

\* keep_count=3 of the call at line 65
KeepCount == 3

\* temp_dump_dir = backup_root/temp_{db_name}_{timestamp}
TempDumpDir(db, stamp) == [db |-> db, stamp |-> stamp]

\* path.glob("CLM_Backup_*.zip") on an archive named {db_name}_{timestamp}.zip
GlobMatches(a) == a.db = "CLM_Backup_Live"

\* The collections of a database of the application
Collections == {"master", "callLogEntries", "users", "appConfig"}

\* mongodump without --excludeCollection
NothingExcluded == {}

\* lines 49-50: --excludeCollection appConfig --excludeCollection users
ExcludedCollections == {"appConfig", "users"}

\* mongodump --db db_name: one .bson file for every collection that exists and is
\* not excluded
MongoDump(database) ==
    {[coll |-> c, docs |-> database[c]] : c \in DOMAIN database \ ExcludedCollections}

\* --out temp_dump_dir puts the files into temp_dump_dir/{db_name}; make_archive
\* zips temp_dump_dir with that directory in it
DumpTree(db, files) ==
    IF files = {} THEN (<<>> :> {}) ELSE (<<>> :> {}) @@ (<<db>> :> files)

\* What backup_root holds when the process starts: nothing, or the archives that
\* five earlier runs for the default database left there
InitialFolders ==
    {{}, {[db |-> "CallLogDB", stamp |-> s, mtime |-> s, readable |-> TRUE,
           tree |-> DumpTree("CallLogDB", {[coll |-> "master", docs |-> {}]}),
           taken |-> [c \in {"master"} |-> {}]] :
            s \in -4..0}}

BackupInit(tool, folders) ==
    /\ bpc = "idle"
    /\ bdb = "none"
    /\ bstamp = 0
    /\ bbefore = {}
    /\ bmade = FALSE
    /\ toolPresent \in tool
    /\ tempDirs = {}
    /\ archives \in folders
    /\ clock = 1
    /\ bresult = [success |-> FALSE, message |-> "none"]

\* The wall clock advances between and during runs.
Tick ==
    /\ clock < MaxClock
    /\ clock' = clock + 1
    /\ UNCHANGED <<bpc, bdb, bstamp, bbefore, bmade, toolPresent, tempDirs, archives, bresult>>
    /\ UNCHANGED <<cacheVars, masterVars, restoreVars, activationVars, restVars>>

\* lines 26-40: the tool lookup, the paths, makedirs(backup_root)
EnterBackup(db) ==
    /\ bpc \in {"idle", "done"}
    /\ rpc \in {"idle", "done"}
    /\ IF ~toolPresent
       THEN /\ bpc' = "done"
            /\ bresult' = [success |-> FALSE, message |-> "Backup tool not found"]
            /\ bdb' = "none"
            /\ bstamp' = 0
       ELSE /\ bpc' = "dump"
            /\ bdb' = db
            /\ bstamp' = clock
            /\ bresult' = [success |-> FALSE, message |-> "none"]
    /\ bmade' = FALSE
    /\ bbefore' = archives
    /\ UNCHANGED <<toolPresent, tempDirs, archives, clock>>

\* run_mongo_backup is called (src/utils/logout.py:23)
RunMongoBackup(db) ==
    /\ EnterBackup(db)
    /\ UNCHANGED <<cacheVars, masterVars, restoreVars, activationVars, restVars>>

\* subprocess.run without check=True: the exit status is recorded and the run goes on
IgnoreExitStatus(e) ==
    /\ bpc' = "archive"
    /\ bresult' = [success |-> FALSE, message |-> e]

\* The except clauses are entered with exception e.
BackupRaise(e) ==
    /\ bpc' = "except"
    /\ bresult' = [success |-> FALSE, message |-> e]

\* line 53: subprocess.run(cmd, check=True, ...). mongodump writes into
\* temp_dump_dir; a run that exits non-zero may or may not have created it, and a
\* dump of a database without collections creates nothing.
BackupDump ==
    /\ bpc = "dump"
    /\ \E r \in {"ok", "CalledProcessError", "OSError"} :
       \E made \in BOOLEAN :
         /\ r = "OSError" => ~made
         /\ tempDirs' = IF made THEN tempDirs \cup {TempDumpDir(bdb, bstamp)}
                        ELSE tempDirs
         /\ bmade' = made
         /\ IF r = "ok"
            THEN bpc' = "archive" /\ UNCHANGED bresult
            ELSE BackupRaise(r)
    /\ UNCHANGED <<bdb, bstamp, bbefore, toolPresent, archives, clock>>
    /\ UNCHANGED <<cacheVars, masterVars, restoreVars, activationVars, restVars>>

\* line 59: shutil.make_archive(zip_base_name, 'zip', temp_dump_dir). It raises
\* when the directory is missing or the file cannot be written; an archive of the
\* same name is overwritten. No restore runs while a backup does, so what line 53
\* dumped is the dump of the store as it is now. `taken` is not in the file: it
\* records the database the archive was taken from, as it was then.
BackupArchive ==
    /\ bpc = "archive"
    /\ \/ /\ TempDumpDir(bdb, bstamp) \in tempDirs
          /\ archives' = {a \in archives : ~(a.db = bdb /\ a.stamp = bstamp)}
                           \cup {[db |-> bdb, stamp |-> bstamp, mtime |-> clock,
                                  readable |-> TRUE,
                                  tree |-> DumpTree(bdb, MongoDump(store[bdb])),
                                  taken |-> store[bdb]]}
          /\ bpc' = "rmtree"
          /\ UNCHANGED bresult
       \/ /\ BackupRaise("ArchiveError")
          /\ UNCHANGED archives
    /\ UNCHANGED <<bdb, bstamp, bbefore, bmade, toolPresent, tempDirs, clock>>
    /\ UNCHANGED <<cacheVars, masterVars, restoreVars, activationVars, restVars>>

KeepTempDir(dirs, d) == dirs

\* shutil.rmtree(temp_dump_dir), taken to succeed: were it to raise inside an
\* except clause, the exception would leave run_mongo_backup, which then does not
\* return
Rmtree(dirs, d) == dirs \ {d}

\* line 62
BackupRmtree ==
    /\ bpc = "rmtree"
    /\ tempDirs' = Rmtree(tempDirs, TempDumpDir(bdb, bstamp))
    /\ bpc' = "retention"
    /\ UNCHANGED <<bdb, bstamp, bbefore, bmade, toolPresent, archives, clock, bresult>>
    /\ UNCHANGED <<cacheVars, masterVars, restoreVars, activationVars, restVars>>

\* _clean_old_backups: what may remain of `files`: the matching archives sorted by
\* modification time, newest first, lose everything after the first keep_count;
\* archives of equal time are in either order.
CleanOldBackups(files, keep_count) ==
    LET backups == {a \in files : GlobMatches(a)}
    IN  IF Cardinality(backups) <= keep_count THEN {files}
        ELSE {(files \ backups) \cup kept :
                kept \in {k \in SUBSET backups :
                            /\ Cardinality(k) = keep_count
                            /\ \A a \in k : \A b \in backups \ k : a.mtime >= b.mtime}}

\* line 65: the retention step; os.remove can raise
BackupRetention ==
    /\ bpc = "retention"
    /\ \/ /\ archives' \in CleanOldBackups(archives, KeepCount)
          /\ bpc' = "return"
          /\ UNCHANGED bresult
       \/ /\ Cardinality({a \in archives : GlobMatches(a)}) > KeepCount
          /\ BackupRaise("OSError")
          /\ UNCHANGED archives
    /\ UNCHANGED <<bdb, bstamp, bbefore, bmade, toolPresent, tempDirs, clock>>
    /\ UNCHANGED <<cacheVars, masterVars, restoreVars, activationVars, restVars>>

\* line 67: return True, "{db_name}_{timestamp}.zip"
BackupReturn ==
    /\ bpc = "return"
    /\ bpc' = "done"
    /\ bresult' = [success |-> TRUE, message |-> "zip"]
    /\ UNCHANGED <<bdb, bstamp, bbefore, bmade, toolPresent, tempDirs, archives, clock>>
    /\ UNCHANGED <<cacheVars, masterVars, restoreVars, activationVars, restVars>>

\* lines 69-74: if os.path.exists(temp_dump_dir): shutil.rmtree(temp_dump_dir);
\* return False, message
BackupExcept ==
    /\ bpc = "except"
    /\ tempDirs' = Rmtree(tempDirs, TempDumpDir(bdb, bstamp))
    /\ bpc' = "done"
    /\ UNCHANGED <<bdb, bstamp, bbefore, bmade, toolPresent, archives, clock, bresult>>
    /\ UNCHANGED <<cacheVars, masterVars, restoreVars, activationVars, restVars>>

BackupNext ==
    \/ Tick
    \/ \E db \in DbNames : RunMongoBackup(db)
    \/ BackupDump
    \/ BackupArchive
    \/ BackupRmtree
    \/ BackupRetention
    \/ BackupReturn
    \/ BackupExcept

----------------------------------------------------------------------------
(* Claims about the backup *)

\* C10: once run_mongo_backup has returned, with whatever outcome, the temporary
\* dump directory of that run does not exist.
C10_TempDirGoneAfterBackup ==
    bpc = "done" => TempDumpDir(bdb, bstamp) \notin tempDirs

\* Some run failed after its dump directory had been created.
C10_Witness ==
    /\ bpc = "done"
    /\ bresult = [success |-> FALSE, message |-> "CalledProcessError"]
    /\ bmade
    /\ TempDumpDir(bdb, bstamp) \notin tempDirs

Min(a, b) == IF a <= b THEN a ELSE b

\* C11: after a successful run_mongo_backup into a folder that held k archives,
\* the folder holds exactly min(k + 1, 3) archives, and no archive that was
\* removed is newer than one that was kept.
C11_RetentionKeepsThree ==
    (bpc = "done" /\ bresult.success) =>
        /\ Cardinality(archives) = Min(Cardinality(bbefore) + 1, KeepCount)
        /\ \A a \in archives : \A b \in bbefore \ archives : a.mtime >= b.mtime

\* C12: when the dump subprocess exits non-zero, run_mongo_backup reports failure
\* (the message carries the subprocess's stderr), and the folder holds exactly the
\* archives it held before: none was produced, none was deleted.
C12_DumpFailureLeavesFolder ==
    bresult.message = "CalledProcessError" =>
        /\ ~bresult.success
        /\ archives = bbefore

\* A run whose dump failed has returned, in a folder that held archives.
C12_Witness ==
    /\ bpc = "done"
    /\ bresult.message = "CalledProcessError"
    /\ Cardinality(bbefore) > KeepCount
    /\ archives = bbefore

----------------------------------------------------------------------------

----------------------------------------------------------------------------
(* Restore *)

\* What a store directory or an archive holds: tree[path] is the set of .bson
\* files of the directory at `path` under the root <<>>, a file being the dump
\* [coll, docs] of one collection.
NoDir == [exists |-> FALSE]
NoZip == [db |-> "none"]
NoTarget == "none"

DataDirs(tree) == {p \in DOMAIN tree : tree[p] # {}}

IsProperPrefix(a, p) == Len(a) < Len(p) /\ SubSeq(p, 1, Len(a)) = a

\* target_dir stays extract_to, whatever the directories hold
NoWalk(tree) == {<<>>}

\* lines 101-106: os.walk(extract_to) is top-down: a directory comes before its
\* subdirectories, which come in the order the file system lists them. The walk
\* stops at the first directory holding a .bson file.
WalkTargets(tree) ==
    {p \in DataDirs(tree) : \A a \in DataDirs(tree) : ~IsProperPrefix(a, p)}

\* A restore tool that writes nothing
RestoreNothing(database, files) == database

\* mongorestore --db db_name --drop target_dir: every collection with a file in
\* target_dir is dropped and written from the file; the others are left alone.
MongoRestoreDrop(database, files) ==
    [c \in DOMAIN database \cup {f.coll : f \in files} |->
        IF \E f \in files : f.coll = c
        THEN (CHOOSE f \in files : f.coll = c).docs
        ELSE database[c]]

\* _doc_to_master: the record of a document, its _id as a string
doc_to_master(doc) == [id |-> doc.id, MobileNo |-> doc.MobileNo, Name |-> doc.Name]

\* A lookup that compares the stored phone number with the argument as given
master_get_as_given(coll, mobile_no) ==
    IF \E d \in coll : d.MobileNo = mobile_no
    THEN doc_to_master(CHOOSE d \in coll : d.MobileNo = mobile_no)
    ELSE None

\* MongoRepository.master_get_by_mobile on the master collection coll
master_get_by_mobile(coll, mobile_no) ==
    IF \E d \in coll : d.MobileNo = normalize_str(mobile_no)
    THEN doc_to_master(CHOOSE d \in coll : d.MobileNo = normalize_str(mobile_no))
    ELSE None

\* A store that was never connected to has no collection.
FreshStore == [c \in {} |-> {}]

\* A store in use: MongoRepository.__init__ has made the indexed collections,
\* save_settings the appConfig document.
StoreOf(m, logs, users, cfg) ==
    [c \in Collections |->
        CASE c = "master" -> m
          [] c = "callLogEntries" -> logs
          [] c = "users" -> users
          [] c = "appConfig" -> cfg]

\* The record master_create was called with
InitialRecords == {[MobileNo |-> Str(<<" ", "1", " ">>), Name |-> Str(<<"a">>)]}

\* The stores the runs start from: the default database holds one master record
\* and one call log entry; the other database is fresh or in use by someone else.
InitialStores ==
    {[db \in DbNames |-> IF db = "CallLogDB" THEN StoreOf({WithId(master_to_doc(r), 1)}, {"log1"}, {"admin"}, {"cfgA"}) ELSE other] :
        r \in InitialRecords, other \in {FreshStore, StoreOf({}, {"log2"}, {"bob"}, {"cfgB"})}}

\* .zip files in the folder that no run_mongo_backup wrote: a file that is not a
\* zip archive, a dump of a whole database zipped flat, a dump zipped two levels
\* down, and an archive of something else.
ForeignZips ==
    { [db |-> "other", stamp |-> -1, mtime |-> -1, readable |-> FALSE,
       tree |-> (<<>> :> {})],
      [db |-> "other", stamp |-> -2, mtime |-> -2, readable |-> TRUE,
       tree |-> (<<>> :> {[coll |-> "master", docs |-> {}],
                          [coll |-> "users", docs |-> {"eve"}]})],
      [db |-> "other", stamp |-> -3, mtime |-> -3, readable |-> TRUE,
       tree |-> (<<>> :> {}) @@ (<<"x">> :> {}) @@
                (<<"x", "y">> :> {[coll |-> "callLogEntries", docs |-> {"log3"}]})],
      [db |-> "other", stamp |-> -4, mtime |-> -4, readable |-> TRUE,
       tree |-> (<<>> :> {}) @@ (<<"docs">> :> {})] }

RestoreInit(stores) ==
    /\ store \in stores
    /\ rpc = "idle"
    /\ rdb = "none"
    /\ rzip = NoZip
    /\ extractTo = NoDir
    /\ target_dir = NoTarget
    /\ rinvoked = NoTarget
    /\ rbefore = FreshStore
    /\ rresult = [success |-> FALSE, message |-> "none"]
    /\ restores = 0

\* run_mongo_restore(uri, db_name, zip_path), lines 90-93; zip_path is a .zip file
\* of the folder (the file dialog, the backup history)
RunMongoRestore(db, zip) ==
    /\ rpc \in {"idle", "done"}
    /\ bpc \in {"idle", "done"}
    /\ zip \in archives
    /\ restores < MaxRestores
    /\ restores' = restores + 1
    /\ rpc' = "clean"
    /\ rdb' = db
    /\ rzip' = zip
    /\ target_dir' = NoTarget
    /\ rinvoked' = NoTarget
    /\ rbefore' = store[db]
    /\ rresult' = [success |-> FALSE, message |-> "none"]
    /\ UNCHANGED <<store, extractTo>>
    /\ UNCHANGED <<cacheVars, masterVars, backupVars, activationVars, restVars>>

\* line 95: if os.path.exists(extract_to): shutil.rmtree(extract_to)
RestoreClean ==
    /\ rpc = "clean"
    /\ extractTo' = NoDir
    /\ rpc' = "extract"
    /\ UNCHANGED <<store, rdb, rzip, target_dir, rinvoked, rbefore, rresult, restores>>
    /\ UNCHANGED <<cacheVars, masterVars, backupVars, activationVars, restVars>>

\* The except clauses are entered with exception e.
RestoreRaise(e) ==
    /\ rpc' = "except"
    /\ rresult' = [success |-> FALSE, message |-> e]

\* lines 96-97: ZipFile(zip_path).extractall(extract_to). A file that is not a
\* zip archive raises BadZipFile, before or after the directory was made.
RestoreExtract ==
    /\ rpc = "extract"
    /\ IF rzip.readable
       THEN /\ extractTo' = [exists |-> TRUE, tree |-> rzip.tree]
            /\ rpc' = "walk"
            /\ UNCHANGED rresult
       ELSE /\ extractTo' \in {NoDir, [exists |-> TRUE, tree |-> (<<>> :> {})]}
            /\ RestoreRaise("BadZipFile")
    /\ UNCHANGED <<store, rdb, rzip, target_dir, rinvoked, rbefore, restores>>
    /\ UNCHANGED <<cacheVars, masterVars, backupVars, activationVars, restVars>>

\* lines 101-109: the search for the directory holding the data files; without
\* one, return False, "Restore failed: No database files (.bson) found ..."
RestoreWalk ==
    /\ rpc = "walk"
    /\ IF WalkTargets(extractTo.tree) = {}
       THEN /\ rpc' = "done"
            /\ rresult' = [success |-> FALSE, message |-> "No database files"]
            /\ UNCHANGED target_dir
       ELSE /\ target_dir' \in WalkTargets(extractTo.tree)
            /\ rpc' = "run"
            /\ UNCHANGED rresult
    /\ UNCHANGED <<store, rdb, rzip, extractTo, rinvoked, rbefore, restores>>
    /\ UNCHANGED <<cacheVars, masterVars, backupVars, activationVars, restVars>>

\* lines 112-121: subprocess.run([mongorestore, --uri, uri, --db, db_name, --drop,
\* target_dir], check=True). A run that exits non-zero has restored some of the
\* collections; a missing executable raises before anything runs.
RestoreRun ==
    /\ rpc = "run"
    /\ \/ /\ store' = [store EXCEPT ![rdb] = MongoRestoreDrop(store[rdb], extractTo.tree[target_dir])]
          /\ rinvoked' = target_dir
          /\ rpc' = "cleanup"
          /\ UNCHANGED rresult
       \/ /\ \E part \in SUBSET extractTo.tree[target_dir] :
               /\ part # extractTo.tree[target_dir]
               /\ store' = [store EXCEPT ![rdb] = MongoRestoreDrop(store[rdb], part)]
          /\ rinvoked' = target_dir
          /\ RestoreRaise("CalledProcessError")
       \/ /\ RestoreRaise("OSError")
          /\ rinvoked' = target_dir
          /\ UNCHANGED store
    /\ UNCHANGED <<rdb, rzip, extractTo, target_dir, rbefore, restores>>
    /\ UNCHANGED <<cacheVars, masterVars, backupVars, activationVars, restVars>>

\* lines 124-125: shutil.rmtree(extract_to); return True, "Data successfully
\* restored. ..."
RestoreCleanup ==
    /\ rpc = "cleanup"
    /\ extractTo' = NoDir
    /\ rresult' = [success |-> TRUE, message |-> "Data successfully restored"]
    /\ rpc' = "done"
    /\ UNCHANGED <<store, rdb, rzip, target_dir, rinvoked, rbefore, restores>>
    /\ UNCHANGED <<cacheVars, masterVars, backupVars, activationVars, restVars>>

\* lines 126-132: if os.path.exists(extract_to): shutil.rmtree(extract_to);
\* return False, message
RestoreExcept ==
    /\ rpc = "except"
    /\ extractTo' = NoDir
    /\ rpc' = "done"
    /\ UNCHANGED <<store, rdb, rzip, target_dir, rinvoked, rbefore, rresult, restores>>
    /\ UNCHANGED <<cacheVars, masterVars, backupVars, activationVars, restVars>>

\* Backups and restores of the databases of one server, into and from one folder
RestoreNext ==
    \/ \E db \in DbNames : RunMongoBackup(db)
    \/ BackupDump
    \/ BackupArchive
    \/ BackupRmtree
    \/ BackupRetention
    \/ BackupReturn
    \/ BackupExcept
    \/ \E db \in DbNames : \E zip \in archives : RunMongoRestore(db, zip)
    \/ RestoreClean
    \/ RestoreExtract
    \/ RestoreWalk
    \/ RestoreRun
    \/ RestoreCleanup
    \/ RestoreExcept

----------------------------------------------------------------------------
(* Claims about the restore *)

\* C13: once run_mongo_restore has returned, with whatever outcome, the temporary
\* extraction directory does not exist.
C13_ExtractDirGoneAfterRestore ==
    rpc = "done" => extractTo = NoDir

Produced(a) == a.db \in DbNames

ArchiveColls(a) == {f.coll : f \in UNION {a.tree[p] : p \in DOMAIN a.tree}}

SameCollection(d1, d2, c) ==
    /\ c \in DOMAIN d1 <=> c \in DOMAIN d2
    /\ c \in DOMAIN d1 => d1[c] = d2[c]

C15_BackupRestoreSparesUsersAndConfig ==
    /\ \A a \in archives : Produced(a) => ArchiveColls(a) \cap {"users", "appConfig"} = {}
    /\ (rzip # NoZip /\ Produced(rzip)) =>
          /\ \A c \in Collections \ ArchiveColls(rzip) : SameCollection(store[rdb], rbefore, c)
          /\ \A c \in {"users", "appConfig"} : SameCollection(store[rdb], rbefore, c)

\* An archive of one database was restored into another one that is in use by
\* other users, and changed it.
C15_Witness ==
    /\ rpc = "done"
    /\ rresult.success
    /\ Produced(rzip)
    /\ rzip.db # rdb
    /\ store[rdb] # rbefore
    /\ "users" \in DOMAIN rbefore
    /\ rbefore["users"] # rzip.taken["users"]

\* C16: after a successful restore of an archive written by run_mongo_backup into
\* a fresh store, the master and call log collections of that store are those of
\* the database at backup time, and master_get_by_mobile returns for every phone
\* number what it returned there.
C16_BackupRestoreRoundTrip ==
    (rpc = "done" /\ rresult.success /\ Produced(rzip) /\ rbefore = FreshStore) =>
        /\ \A c \in {"master", "callLogEntries"} : SameCollection(store[rdb], rzip.taken, c)
        /\ "master" \in DOMAIN rzip.taken =>
              \A m \in RawPhones :
                 master_get_by_mobile(store[rdb]["master"], m)
                    = master_get_by_mobile(rzip.taken["master"], m)

\* The round trip of a database holding a master record and a call log entry,
\* which was restored from another archive after the backup.
C16_Witness ==
    /\ rpc = "done"
    /\ rresult.success
    /\ Produced(rzip)
    /\ rbefore = FreshStore
    /\ rzip.db # rdb
    /\ rzip.taken["callLogEntries"] # {}
    /\ \E m \in RawPhones : master_get_by_mobile(store[rdb]["master"], m) # None
    /\ store[rzip.db]["master"] # rzip.taken["master"]

----------------------------------------------------------------------------
(* Activation *)

\* A Python int
Num(n) == [t |-> "int", n |-> n]

\* bool(v)
Truthy(v) ==
    CASE v = None -> FALSE
      [] v.t = "str" -> v.s # <<>>
      [] v.t = "int" -> v.n # 0

Digits == <<"1", "2", "3", "4", "5", "6", "7", "8", "9">>

\* str(v), as a sequence of characters (the ints of the model have one digit)
PyStr(v) ==
    CASE v = None -> <<"N", "o", "n", "e">>
      [] v.t = "str" -> v.s
      [] v.t = "int" -> <<Digits[v.n]>>

Strip(s) == RStrip(LStrip(s))

\* A strip() that leaves the text as it is
NoStrip(s) == s

LowerLetters == <<"a", "b", "c", "d", "e", "f", "h">>
UpperLetters == <<"A", "B", "C", "D", "E", "F", "H">>

LowerChar(c) ==
    IF \E i \in 1..Len(UpperLetters) : UpperLetters[i] = c
    THEN LowerLetters[CHOOSE i \in 1..Len(UpperLetters) : UpperLetters[i] = c]
    ELSE c

UpperChar(c) ==
    IF \E i \in 1..Len(LowerLetters) : LowerLetters[i] = c
    THEN UpperLetters[CHOOSE i \in 1..Len(LowerLetters) : LowerLetters[i] = c]
    ELSE c

\* str.lower(), str.upper()
Lower(s) == [i \in 1..Len(s) |-> LowerChar(s[i])]
Upper(s) == [i \in 1..Len(s) |-> UpperChar(s[i])]

\* The characters of the texts that are hashed, and the hexadecimal digits
RawAlphabet == <<"a", "b", "A", "B", "1", "2", " ", "\t", "H", "h", "C", "s", "t">>
HexDigits == <<"1", "2", "3", "4", "5", "6", "7", "8", "9", "a", "b", "c", "d", "e", "f">>

HexCode(c) == HexDigits[CHOOSE i \in 1..Len(RawAlphabet) : RawAlphabet[i] = c]

\* hashlib.sha256(raw.encode()).hexdigest(), the sixteen digits of it that are
\* used: a function of the text without collisions, written as one digit for each
\* character and zeros after them
Sha256Hex(raw) == [i \in 1..16 |-> IF i <= Len(raw) THEN HexCode(raw[i]) ELSE "0"]

\* f"{h[:4]}-{h[4:8]}-{h[8:12]}-{h[12:16]}"
FormatKey(h) ==
    SubSeq(h, 1, 4) \o <<"-">> \o SubSeq(h, 5, 8) \o <<"-">> \o SubSeq(h, 9, 12)
        \o <<"-">> \o SubSeq(h, 13, 16)

\* The key of the identity and contact alone, the same on every machine
KeyForAnyMachine(email, mobile, hwid, secret) ==
    FormatKey(Upper(Sha256Hex(Lower(Strip(PyStr(email))) \o Strip(PyStr(mobile))
                                 \o PyStr(secret))))

\* lines 36-44 of verify_key: the key that belongs to the inputs
expected_key(email, mobile, hwid, secret) ==
    LET clean_email == Lower(Strip(PyStr(email)))
        clean_mobile == Strip(PyStr(mobile))
        clean_hwid == Upper(Strip(PyStr(hwid)))
        raw_str == clean_email \o clean_mobile \o clean_hwid \o PyStr(secret)
    IN  FormatKey(Upper(Sha256Hex(raw_str)))

\* How a call ends
Returns(v) == [kind |-> "return", value |-> v]
Raises(e) == [kind |-> "raise", exc |-> e]
NoCall == [args |-> <<>>, outcome |-> [kind |-> "none"]]

\* st.secrets.get("ACTIVATION_SECRET") raises when there is no secrets file
NoSecretsFile == [t |-> "raise"]

\* line 27, when the lookup does not raise: a or b
Secret == IF Truthy(stSecret) THEN stSecret ELSE envSecret

\* A verify_key that accepts every key
AcceptAnyKey(email, mobile, hwid, provided_key) == Returns(TRUE)

\* verify_key, lines 24-45
verify_key(email, mobile, hwid, provided_key) ==
    IF stSecret = NoSecretsFile THEN Raises("SecretNotFoundError")
    ELSE IF ~Truthy(Secret) THEN Returns(FALSE)
    ELSE IF ~(Truthy(email) /\ Truthy(mobile) /\ Truthy(hwid) /\ Truthy(provided_key))
         THEN Returns(FALSE)
    ELSE IF provided_key.t # "str" THEN Raises("AttributeError")
    ELSE Returns(Upper(Strip(provided_key.s)) = expected_key(email, mobile, hwid, Secret))

\* verify_key(*args): four positional parameters, none with a default
CallVerifyKeyWith(args) ==
    IF Len(args) # 4 THEN Raises("TypeError")
    ELSE verify_key(args[1], args[2], args[3], args[4])

\* The hosts the application is started on; the last one does not give away its
\* machine UUID
Machines == {"m1", "m2", "cloud"}

\* get_hardware_id: the formatted hash of the machine UUID, "CLOUD-ENV-INSTANCE"
\* when the command fails
get_hardware_id(m) ==
    CASE m = "m1" -> Str(<<"H", "1">>)
      [] m = "m2" -> Str(<<"H", "2">>)
      [] OTHER -> Str(<<"C">>)


\* Inputs of verify_key
Emails == {Str(<<"a">>), Str(<<"A">>), Str(<<"a", " ">>), Str(<<"a", "\t">>), Str(<<"b">>),
           Str(<<>>), None}
Mobiles == {Str(<<"1">>), Str(<<"2">>), Str(<<"1", " ">>), Num(1)}
Hwids == {Str(<<"H", "1">>), Str(<<"h", "1">>), Str(<<"H", "2">>)}
Secrets == {Str(<<"s">>)}

\* The keys the administrator issues, and what users make of them when typing
IssuedKeys ==
    {expected_key(e, m, h, s) : e \in Emails \ {None, Str(<<>>)}, m \in Mobiles, h \in Hwids,
                                 s \in Secrets}
Keys ==
    UNION {{Str(k), Str(Lower(k)), Str(k \o <<" ">>), Str(k \o <<"\t">>)} : k \in IssuedKeys}
        \cup {Str(<<>>), None, Num(7)}

\* The calls of verify_key that are looked at
VerifyCalls ==
    {[args |-> <<e, m, h, k>>, outcome |-> [kind |-> "none"]] :
        e \in Emails, m \in Mobiles, h \in Hwids, k \in Keys}

\* `calls` are the calls about to be made
ActivationInit(stSecrets, envSecrets, calls) ==
    /\ stSecret \in stSecrets
    /\ envSecret \in envSecrets
    /\ machine = "m1"
    /\ activation = None
    /\ app_activated = FALSE
    /\ apc = "stopped"
    /\ lastVerify \in calls

\* The call verify_key(email, mobile, hwid, provided_key) is made
CallVerifyKey ==
    /\ lastVerify.outcome.kind = "none"
    /\ Len(lastVerify.args) = 4
    /\ lastVerify' = [lastVerify EXCEPT !.outcome = CallVerifyKeyWith(lastVerify.args)]
    /\ UNCHANGED <<stSecret, envSecret, machine, activation, app_activated, apc>>
    /\ UNCHANGED <<cacheVars, masterVars, backupVars, restoreVars, restVars>>

VerifyNext == CallVerifyKey

\* A browser session starts the application on machine m:
\* initialize_session_state, helpers.py lines 69-70
AppStart(m) ==
    /\ machine' = m
    /\ app_activated' = FALSE
    /\ apc' = "started"
    /\ UNCHANGED <<stSecret, envSecret, activation, lastVerify>>
    /\ UNCHANGED <<cacheVars, masterVars, backupVars, restoreVars, restVars>>

\* repo.get_activation_record(): the singleton document, or None
get_activation_record == activation

\* repo.save_activation(name, email, mobile, key, hwid): an upsert of the singleton
save_activation(email, mobile, key, hwid) ==
    [email |-> email, mobile |-> mobile, key |-> key, hwid |-> hwid]

\* set_active_repo, helpers.py lines 41-54, the repository being connected
SetActiveRepo ==
    /\ apc = "started"
    /\ apc' = "connected"
    /\ LET act_record == get_activation_record
       IN  IF act_record = None
           THEN UNCHANGED <<app_activated, lastVerify>>
           ELSE LET email == Str(PyStr(act_record.email))
                    mobile == Str(PyStr(act_record.mobile))
                    key == Str(PyStr(act_record.key))
                    out == CallVerifyKeyWith(<<email, mobile, key>>)
                IN  IF Truthy(email) /\ Truthy(mobile) /\ Truthy(key)
                    THEN /\ lastVerify' = [args |-> <<email, mobile, key>>, outcome |-> out]
                         /\ app_activated' =
                               IF out = Returns(TRUE) THEN TRUE ELSE app_activated
                    ELSE UNCHANGED <<app_activated, lastVerify>>
    /\ UNCHANGED <<stSecret, envSecret, machine, activation>>
    /\ UNCHANGED <<cacheVars, masterVars, backupVars, restoreVars, restVars>>

\* render_activation_ui(repo), lines 48 and 93-109: the form is submitted
SubmitActivation(email, mobile, key) ==
    /\ apc \in {"started", "connected"}
    /\ ~app_activated
    /\ LET hwid == get_hardware_id(machine)
           out == verify_key(email, mobile, hwid, key)
       IN  /\ lastVerify' = [args |-> <<email, mobile, hwid, key>>, outcome |-> out]
           /\ IF out = Returns(TRUE)
              THEN /\ activation' =
                         IF apc = "connected"
                         THEN save_activation(Str(Strip(email.s)), Str(Strip(mobile.s)),
                                              Str(Upper(Strip(key.s))), hwid)
                         ELSE activation
                   /\ app_activated' = TRUE
              ELSE UNCHANGED <<activation, app_activated>>
    /\ UNCHANGED <<stSecret, envSecret, machine, apc>>
    /\ UNCHANGED <<cacheVars, masterVars, backupVars, restoreVars, restVars>>

\* What users type into the form
FormEmails == {Str(<<"a">>), Str(<<"A", " ">>)}
FormMobiles == {Str(<<"1">>)}
FormKeys ==
    UNION {{Str(Lower(expected_key(e, m, get_hardware_id(x), s)) \o <<" ">>) :
              e \in FormEmails, m \in FormMobiles, s \in Secrets} : x \in Machines}

ActivationNext ==
    \/ \E m \in Machines : AppStart(m)
    \/ SetActiveRepo
    \/ \E e \in FormEmails, m \in FormMobiles, k \in FormKeys : SubmitActivation(e, m, k)

----------------------------------------------------------------------------
(* Claims about the activation *)

SecretConfigured == stSecret # NoSecretsFile /\ Truthy(Secret)

\* C17: after a start of the application on the machine the persisted activation
\* record was made on, the session is activated as soon as the repository is
\* connected.
C17_PersistedActivationReactivates ==
    (/\ apc = "connected"
     /\ activation # None
     /\ activation.hwid = get_hardware_id(machine)
     /\ SecretConfigured) => app_activated

\* The call `call` of verify_key returned true for a key that belongs to its
\* identity and contact and to the hardware id of machine m.
VerifiedFor(call, m) ==
    /\ call.outcome = Returns(TRUE)
    /\ SecretConfigured
    /\ Len(call.args) = 4
    /\ call.args[3] = get_hardware_id(m)
    /\ call.args[4].t = "str"
    /\ Upper(Strip(call.args[4].s))
          = expected_key(call.args[1], call.args[2], get_hardware_id(m), Secret)

\* C18: app_activated becomes true, and an activation record is persisted, only in
\* a step in which verify_key returned true for the submitted identity, contact and
\* key against the hardware id of the machine the application runs on; connecting
\* the repository on a machine other than the one of the persisted record does not
\* activate a session that was not activated.
C18_ActivationOnlyAfterVerification ==
    [][/\ (app_activated' /\ ~app_activated) => VerifiedFor(lastVerify', machine)
       /\ activation' # activation =>
            /\ VerifiedFor(lastVerify', machine)
            /\ activation'.hwid = get_hardware_id(machine)
            /\ activation'.key = Str(Upper(Strip(lastVerify'.args[4].s)))
       /\ (/\ apc = "started" /\ apc' = "connected"
           /\ activation # None
           /\ activation.hwid # get_hardware_id(machine)) => app_activated' = app_activated
      ]_vars

\* A session on a connected repository was activated through the form and the
\* record persisted for its machine.
C18_Witness ==
    /\ app_activated
    /\ apc = "connected"
    /\ activation # None
    /\ activation.hwid = get_hardware_id(machine)
    /\ lastVerify.outcome = Returns(TRUE)

\* Texts x and y of equal length that differ in exactly one character
OneCharChanged(x, y) ==
    /\ x.t = "str" /\ y.t = "str"
    /\ Len(x.s) = Len(y.s)
    /\ Cardinality({i \in 1..Len(x.s) : x.s[i] # y.s[i]}) = 1

\* Texts that differ at most in the case of their letters
CaseOnly(x, y) == x.t = "str" /\ y.t = "str" /\ Lower(x.s) = Lower(y.s)

\* The inputs a key is issued for, with the key
BaseInputs ==
    {<<e, m, h, Str(expected_key(e, m, h, Secret))>> :
        e \in Emails \ {None, Str(<<>>)}, m \in Mobiles, h \in Hwids}

\* Call arguments a that differ from b in one input only, by one character
OneInputOneChar(a, b) ==
    \E i \in 1..4 : OneCharChanged(a[i], b[i]) /\ \A j \in (1..4) \ {i} : a[j] = b[j]

\* What verify_key compares: the inputs without surrounding whitespace, the case
\* of email, hardware id and key folded
SameNormalized(a, b) ==
    /\ a[4].t = "str" /\ b[4].t = "str"
    /\ Lower(Strip(PyStr(a[1]))) = Lower(Strip(PyStr(b[1])))
    /\ Strip(PyStr(a[2])) = Strip(PyStr(b[2]))
    /\ Lower(Strip(PyStr(a[3]))) = Lower(Strip(PyStr(b[3])))
    /\ Lower(Strip(a[4].s)) = Lower(Strip(b[4].s))

\* C19, as stated: verify_key is true for the issued key with the inputs it was
\* issued for, also when email, hardware id or key differ in letter case, and
\* false when a single character of one input is changed in any other way.
C19_SingleCharacterChangeRejected ==
    (SecretConfigured /\ lastVerify.outcome.kind # "none") =>
        \A b \in BaseInputs :
            LET a == lastVerify.args
            IN  /\ (CaseOnly(a[1], b[1]) /\ a[2] = b[2] /\ CaseOnly(a[3], b[3])
                        /\ CaseOnly(a[4], b[4]))
                      => lastVerify.outcome = Returns(TRUE)
                /\ (/\ OneInputOneChar(a, b)
                    /\ ~(CaseOnly(a[1], b[1]) /\ CaseOnly(a[3], b[3]) /\ CaseOnly(a[4], b[4])))
                      => lastVerify.outcome = Returns(FALSE)

\* C19, amended: verify_key is true for the issued key with the inputs it was
\* issued for, also when the inputs differ in the letter case of email, hardware id
\* or key or in whitespace around an input, and false when a single character of
\* one input is changed in any other way.
C19_NormalizedChangeRejected ==
    (SecretConfigured /\ lastVerify.outcome.kind # "none") =>
        \A b \in BaseInputs :
            LET a == lastVerify.args
            IN  /\ SameNormalized(a, b) => lastVerify.outcome = Returns(TRUE)
                /\ (OneInputOneChar(a, b) /\ ~SameNormalized(a, b))
                      => lastVerify.outcome = Returns(FALSE)

\* verify_key has accepted a key typed in lower case, with an email address
\* written in capitals, a mobile number followed by a blank and a hardware id in
\* small letters.
C19_Witness ==
    /\ SecretConfigured
    /\ lastVerify.outcome = Returns(TRUE)
    /\ lastVerify.args[1] = Str(<<"A">>)
    /\ lastVerify.args[2] = Str(<<"1", " ">>)
    /\ lastVerify.args[3] = Str(<<"h", "1">>)
    /\ lastVerify.args[4].s # Upper(lastVerify.args[4].s)

\* C20: a call of verify_key ends by returning true or false, whatever the inputs
\* and the configuration of the secret.
C20_VerifyKeyNeverRaises ==
    lastVerify.outcome.kind # "none" =>
        /\ lastVerify.outcome.kind = "return"
        /\ lastVerify.outcome.value \in BOOLEAN

----------------------------------------------------------------------------
(* Logout *)

\* The session that logs out
LogoutSession == "s1"

\* AppSettings(backend="mongodb", mongodb=MongoSettings(uri, database, backup_path)),
\* stored only with a non-empty backup_path
BackupSettings == [t |-> "AppSettings", database |-> "CallLogDB", backup_path |-> "dir"]

LogoutInit(settings) ==
    /\ lgpc = "app"
    /\ logging_out = FALSE
    /\ app_settings \in settings
    /\ ignore = FALSE
    /\ session_ended = "no"
    /\ lhandle = NoHandle
    /\ lbackups = <<>>

\* The cache and the sessions after session s connected to u, alone
CacheConnected(s, u) ==
    /\ mongo_clients = [k \in Uris |-> IF k = u THEN 1 ELSE NoHandle]
    /\ nextHandle = 2
    /\ closed = [h \in Handles |-> FALSE]
    /\ pc = [t \in Sessions |-> "idle"]
    /\ uri = [t \in Sessions |-> NoUri]
    /\ client = [t \in Sessions |-> NoHandle]
    /\ exc = [t \in Sessions |-> NoExc]
    /\ ret = [t \in Sessions |-> NoHandle]
    /\ repo = [t \in Sessions |-> IF t = s THEN 1 ELSE NoHandle]
    /\ keys = [t \in Sessions |-> {}]
    /\ released = [t \in Sessions |-> FALSE]
    /\ freed = {}
    /\ again = [t \in Sessions |-> FALSE]
    /\ outcome = [t \in Sessions |-> IF t = s THEN [at |-> "__init__", result |-> "ok"]
                                     ELSE NoOutcome]

\* perform_logout, "Yes - Backup & Logout": logging_out = True, st.rerun()
ConfirmLogout ==
    /\ lgpc = "app"
    /\ pc[LogoutSession] = "idle"
    /\ repo[LogoutSession] # NoHandle
    /\ logging_out' = TRUE
    /\ lgpc' = "logic"
    /\ lhandle' = repo[LogoutSession]
    /\ lbackups' = <<>>
    /\ UNCHANGED <<app_settings, ignore, session_ended>>
    /\ UNCHANGED <<cacheVars, masterVars, backupVars, restoreVars, activationVars, configVars, userVars,
                 reportVars, overlapVars>>

\* line 69: st.session_state.clear(). Every key of the session goes, active_repo
\* among them; nothing is called on the repository object.
ClearSession ==
    /\ ForgetRepository(LogoutSession)
    /\ logging_out' = FALSE
    /\ app_settings' = None
    /\ ignore' = FALSE
    /\ session_ended' = "cleared"
    /\ lgpc' = "ended"

\* lines 9-27: a backup path is configured, run_mongo_backup is called
LogoutCallBackup ==
    /\ lgpc = "logic"
    /\ app_settings # None
    /\ EnterBackup(app_settings.database)
    /\ lgpc' = "backup"
    /\ UNCHANGED <<logging_out, app_settings, ignore, session_ended, lhandle, lbackups>>
    /\ UNCHANGED <<cacheVars, masterVars, restoreVars, activationVars, configVars, userVars,
                 reportVars, overlapVars>>

\* lines 9-18, 69: no settings in the session, the backup is skipped
LogoutWithoutBackup ==
    /\ lgpc = "logic"
    /\ app_settings = None
    /\ ClearSession
    /\ UNCHANGED <<lhandle, lbackups>>
    /\ UNCHANGED <<masterVars, backupVars, restoreVars, activationVars, configVars, userVars,
                 reportVars, overlapVars>>

ClearsAlways(success, clicked) == TRUE

\* lines 29, 65: the run goes on to line 69 after a successful backup, or when
\* the button of line 65 is True
ReachesClear(success, clicked) == success \/ clicked

\* lines 29-69: run_mongo_backup has returned
LogoutAfterBackup ==
    /\ lgpc = "backup"
    /\ bpc = "done"
    /\ lbackups' = Append(lbackups, bresult.success)
    /\ IF ReachesClear(bresult.success, ignore)
       THEN ClearSession
       ELSE /\ lgpc' = "failed"
            /\ UNCHANGED <<logging_out, app_settings, ignore, session_ended>>
            /\ UNCHANGED cacheVars
    /\ UNCHANGED lhandle
    /\ UNCHANGED <<masterVars, backupVars, restoreVars, activationVars, configVars, userVars,
                 reportVars, overlapVars>>

\* line 65: the user clicks "Ignore and Logout Anyway"; the script runs again with
\* logging_out still True
ClickIgnore ==
    /\ lgpc = "failed"
    /\ ignore' = TRUE
    /\ lgpc' = "logic"
    /\ UNCHANGED <<logging_out, app_settings, session_ended, lhandle, lbackups>>
    /\ UNCHANGED <<cacheVars, masterVars, backupVars, restoreVars, activationVars, configVars, userVars,
                 reportVars, overlapVars>>

\* src/app.py:251-256: the Logout button of the settings page calls repo_obj.close()
AppLogoutButton ==
    /\ lgpc = "app"
    /\ EnterClose(LogoutSession)
    /\ lgpc' = "closing"
    /\ lhandle' = repo[LogoutSession]
    /\ UNCHANGED <<logging_out, app_settings, ignore, session_ended, lbackups>>
    /\ UNCHANGED <<masterVars, backupVars, restoreVars, activationVars, configVars, userVars,
                 reportVars, overlapVars>>

\* src/app.py:257-264: errors of close() are ignored; active_repo = None,
\* logged_out = True, st.rerun()
AppLogoutDone ==
    /\ lgpc = "closing"
    /\ pc[LogoutSession] = "idle"
    /\ ForgetRepository(LogoutSession)
    /\ session_ended' = "logged_out"
    /\ lgpc' = "ended"
    /\ UNCHANGED <<logging_out, app_settings, ignore, lhandle, lbackups>>
    /\ UNCHANGED <<masterVars, backupVars, restoreVars, activationVars, configVars, userVars,
                 reportVars, overlapVars>>

LogoutNext ==
    \/ ConfirmLogout
    \/ LogoutCallBackup
    \/ LogoutWithoutBackup
    \/ Tick
    \/ BackupDump
    \/ BackupArchive
    \/ BackupRmtree
    \/ BackupRetention
    \/ BackupReturn
    \/ BackupExcept
    \/ LogoutAfterBackup
    \/ ClickIgnore
    \/ AppLogoutButton
    \/ CloseClient(LogoutSession)
    \/ CloseKeys(LogoutSession)
    \/ CloseDel(LogoutSession)
    \/ AppLogoutDone

----------------------------------------------------------------------------
(* Claims about the logout *)

\* C21: once a logout has completed, no backup is still running, and the handle
\* the session's repository held is closed and is the value of no key of
\* _mongo_clients.
C21_LogoutBacksUpThenTearsDown ==
    lgpc = "ended" =>
        /\ bpc \in {"idle", "done"}
        /\ session_ended = "cleared" => lbackups # <<>> \/ bpc = "idle"
        /\ closed[lhandle]
        /\ \A u \in Uris : mongo_clients[u] # lhandle

\* C30: a run of the logout page whose backup failed clears the session state
\* only when "Ignore and Logout Anyway" was clicked; the session state is cleared
\* only after a successful backup, after that click, or without a backup path.
C30_FailedBackupKeepsSession ==
    [][/\ (lgpc = "backup" /\ lgpc' # lgpc /\ ~bresult.success /\ ~ignore) =>
            /\ session_ended' = "no"
            /\ logging_out' /\ app_settings' = app_settings /\ repo' = repo
       /\ (session_ended = "no" /\ session_ended' = "cleared") =>
            \/ app_settings = None
            \/ lgpc = "backup" /\ bresult.success
            \/ lgpc = "backup" /\ ignore]_vars

\* The backup of a logout has failed and the page has stopped with the session kept
C30_Witness ==
    /\ lgpc = "failed"
    /\ lbackups = <<FALSE>>
    /\ session_ended = "no"
    /\ logging_out
    /\ app_settings = BackupSettings

----------------------------------------------------------------------------
(* Singleton configuration documents *)

\* The names under which the last saved value of each store is remembered
ConfigStores == {"emailConfig", "EmailConfig", "miscData"} \cup DbNames

ConfigInit ==
    /\ emailConfig = {}
    /\ emailTable = {}
    /\ miscData = {}
    /\ appConfig = [db \in DbNames |-> {}]
    /\ cfgLast = [n \in ConfigStores |-> None]
    /\ cfgOverwritten = {}
    /\ cfgResult = "none"

\* dict.get(key, default) of a dict given as a function of its keys
DictGet(d, key, default) == IF key \in DOMAIN d THEN d[key] ELSE default

\* {"$set": fields} applied to a document
SetFields(doc, fields) ==
    [k \in DOMAIN doc \cup DOMAIN fields |-> IF k \in DOMAIN fields THEN fields[k] ELSE doc[k]]

\* insert_one of the fields under a new ObjectId
InsertFields(coll, id, fields) ==
    coll \cup {SetFields([id |-> <<"oid1", "oid2", "oid3">>[Min(Cardinality(coll) + 1, 3)]],
                         fields)}

\* update_one({"_id": id}, {"$set": fields}, upsert=True)
UpdateOneUpsert(coll, id, fields) ==
    IF \E d \in coll : d.id = id
    THEN LET first == CHOOSE d \in coll : d.id = id
         IN  (coll \ {first}) \cup {SetFields(first, fields)}
    ELSE coll \cup {SetFields([id |-> id], fields)}

\* find_one({"_id": id})
FindOne(coll, id) ==
    IF \E d \in coll : d.id = id THEN CHOOSE d \in coll : d.id = id ELSE None

\* delete_one({"_id": id})
DeleteOne(coll, id) ==
    IF \E d \in coll : d.id = id THEN coll \ {CHOOSE d \in coll : d.id = id} ELSE coll

EmailFields == {"smtp_server", "smtp_port", "smtp_user", "smtp_password"}

\* What email_config_save stores and email_config_get returns for a config
EmailValues(config) == [k \in EmailFields |-> DictGet(config, k, None)]

\* mongo_repo.py email_config_get
email_config_get(coll) ==
    LET doc == FindOne(coll, "email_settings")
    IN  IF doc = None THEN None ELSE [k \in EmailFields |-> DictGet(doc, k, None)]

\* The config dicts the email page and other callers pass
EmailConfigs ==
    {[smtp_server |-> Str(<<"a">>), smtp_port |-> Num(25), smtp_user |-> Str(<<"u">>),
      smtp_password |-> Str(<<"p">>)],
     [smtp_server |-> Str(<<"b">>), smtp_port |-> Num(25), smtp_user |-> Str(<<"u">>),
      smtp_password |-> Str(<<"p">>)],
     [smtp_server |-> Str(<<"b">>), smtp_port |-> Num(25), smtp_user |-> None,
      smtp_password |-> Str(<<"p">>)],
     [smtp_server |-> Str(<<"a">>)]}

\* The ghost variables after a save of value v to store n
Saved(n, v) ==
    /\ cfgLast' = [cfgLast EXCEPT ![n] = v]
    /\ cfgOverwritten' = IF cfgLast[n] \notin {None, v} THEN cfgOverwritten \cup {n}
                         ELSE cfgOverwritten
    /\ cfgResult' = "ok"

\* mongo_repo.py email_config_save
MongoEmailConfigSave(config) ==
    /\ emailConfig' = UpdateOneUpsert(emailConfig, "email_settings",
                         SetFields(EmailValues(config), [UpdatedDate |-> clock]))
    /\ Saved("emailConfig", EmailValues(config))
    /\ UNCHANGED <<emailTable, miscData, appConfig>>
    /\ UNCHANGED <<cacheVars, masterVars, backupVars, restoreVars, activationVars, logoutVars, userVars,
                 reportVars, overlapVars>>

\* mongo_repo.py email_config_delete
MongoEmailConfigDelete ==
    /\ emailConfig' = DeleteOne(emailConfig, "email_settings")
    /\ cfgLast' = [cfgLast EXCEPT !["emailConfig"] = None]
    /\ cfgResult' = "ok"
    /\ UNCHANGED <<emailTable, miscData, appConfig, cfgOverwritten>>
    /\ UNCHANGED <<cacheVars, masterVars, backupVars, restoreVars, activationVars, logoutVars, userVars,
                 reportVars, overlapVars>>

\* mssql_repo.py email_config_get: the row with ConfigId = 1
mssql_email_config_get(table) ==
    IF \E r \in table : r.ConfigId = 1
    THEN LET r == CHOOSE r \in table : r.ConfigId = 1
         IN  [smtp_server |-> r.SmtpServer, smtp_port |-> r.SmtpPort,
              smtp_user |-> r.SmtpUser, smtp_password |-> r.SmtpPassword]
    ELSE None

\* mssql_repo.py email_config_save: SELECT, then UPDATE or INSERT; the four
\* columns are NOT NULL (db_init_mssql.py), a None among them makes the statement
\* fail and the transaction is rolled back
MssqlEmailConfigSave(config) ==
    LET v == EmailValues(config)
        exists == \E r \in emailTable : r.ConfigId = 1
    IN  /\ IF \E k \in EmailFields : v[k] = None
           THEN /\ cfgResult' = "IntegrityError"
                /\ UNCHANGED <<emailTable, cfgLast, cfgOverwritten>>
           ELSE /\ emailTable' =
                     IF exists
                     THEN {IF r.ConfigId = 1
                           THEN [r EXCEPT !.SmtpServer = v.smtp_server,
                                          !.SmtpPort = v.smtp_port,
                                          !.SmtpUser = v.smtp_user,
                                          !.SmtpPassword = v.smtp_password,
                                          !.UpdatedDate = clock]
                           ELSE r : r \in emailTable}
                     ELSE emailTable \cup
                            {[ConfigId |-> 1, SmtpServer |-> v.smtp_server,
                              SmtpPort |-> v.smtp_port, SmtpUser |-> v.smtp_user,
                              SmtpPassword |-> v.smtp_password,
                              CreatedDate |-> clock, UpdatedDate |-> clock]}
                /\ Saved("EmailConfig", v)
        /\ UNCHANGED <<emailConfig, miscData, appConfig>>
        /\ UNCHANGED <<cacheVars, masterVars, backupVars, restoreVars, activationVars,
                       logoutVars, userVars,
                 reportVars, overlapVars>>

\* mssql_repo.py email_config_delete
MssqlEmailConfigDelete ==
    /\ emailTable' = {r \in emailTable : r.ConfigId # 1}
    /\ cfgLast' = [cfgLast EXCEPT !["EmailConfig"] = None]
    /\ cfgResult' = "ok"
    /\ UNCHANGED <<emailConfig, miscData, appConfig, cfgOverwritten>>
    /\ UNCHANGED <<cacheVars, masterVars, backupVars, restoreVars, activationVars, logoutVars, userVars,
                 reportVars, overlapVars>>

\* Two of the ten lists stand for all: each is read with data.get(key, []) on
\* save and doc.get(key, []) on get
MiscFields == {"projects", "types"}
EmptyList == [t |-> "list", items |-> <<>>]
ListOf(items) == [t |-> "list", items |-> items]

MiscValues(data) == [k \in MiscFields |-> DictGet(data, k, EmptyList)]

\* mongo_repo.py misc_data_get
misc_data_get(coll) ==
    LET doc == FindOne(coll, "dropdown_values")
    IN  IF doc = None THEN None ELSE [k \in MiscFields |-> DictGet(doc, k, EmptyList)]

MiscInputs ==
    {[projects |-> ListOf(<<"p">>), types |-> ListOf(<<"t">>)],
     [projects |-> ListOf(<<"p">>)],
     [types |-> None]}

\* mongo_repo.py misc_data_save
MiscDataSave(data) ==
    /\ miscData' = UpdateOneUpsert(miscData, "dropdown_values",
                      SetFields(MiscValues(data), [UpdatedDate |-> clock]))
    /\ Saved("miscData", MiscValues(data))
    /\ UNCHANGED <<emailConfig, emailTable, appConfig>>
    /\ UNCHANGED <<cacheVars, masterVars, backupVars, restoreVars, activationVars, logoutVars, userVars,
                 reportVars, overlapVars>>

\* The AppSettings the settings page builds
AppSettingsInputs ==
    {[backend |-> b, mongodb |-> m, activation |-> None, authenticated_user |-> u] :
        b \in Backends,
        m \in {None} \cup {[uri |-> "uriA", database |-> db, backup_path |-> "dir"] :
                            db \in DbNames},
        u \in {None, Str(<<"admin">>)}}

\* asdict(appSettings) after appSettings.createdAt = datetime.utcnow()
AsDict(appSettings) ==
    [backend |-> appSettings.backend, mongodb |-> appSettings.mongodb,
     createdAt |-> clock, activation |-> appSettings.activation,
     authenticated_user |-> appSettings.authenticated_user]

\* What a reader of the appConfig collection of db finds under "active"
settings_get(coll) ==
    LET doc == FindOne(coll, "active")
    IN  IF doc = None THEN None
        ELSE [k \in DOMAIN doc \ {"id", "createdAt"} |-> doc[k]]

\* settings_store.py save_settings, _save_settings_to_mongo
SaveSettings(appSettings) ==
    /\ IF appSettings.backend # "mongodb" \/ appSettings.mongodb = None
       THEN /\ cfgResult' = "ValueError"
            /\ UNCHANGED <<appConfig, cfgLast, cfgOverwritten>>
       ELSE LET db == appSettings.mongodb.database
            IN  /\ appConfig' = [appConfig EXCEPT ![db] =
                                   UpdateOneUpsert(@, "active", AsDict(appSettings))]
                /\ Saved(db, [k \in DOMAIN appSettings |-> appSettings[k]])
    /\ UNCHANGED <<emailConfig, emailTable, miscData>>
    /\ UNCHANGED <<cacheVars, masterVars, backupVars, restoreVars, activationVars, logoutVars, userVars,
                 reportVars, overlapVars>>

ConfigNext ==
    \/ \E config \in EmailConfigs : MongoEmailConfigSave(config)
    \/ MongoEmailConfigDelete
    \/ \E config \in EmailConfigs : MssqlEmailConfigSave(config)
    \/ MssqlEmailConfigDelete
    \/ \E data \in MiscInputs : MiscDataSave(data)
    \/ \E appSettings \in AppSettingsInputs : SaveSettings(appSettings)

----------------------------------------------------------------------------
(* Claims about the configuration documents *)

AtMostOneUnder(coll, id) == Cardinality(coll) <= 1 /\ \A d \in coll : d.id = id

\* C22: each configuration store holds at most one document, under its fixed
\* key, and a get returns the values of the last save, or nothing after a delete.
C22_SingletonDocuments ==
    /\ AtMostOneUnder(emailConfig, "email_settings")
    /\ AtMostOneUnder(miscData, "dropdown_values")
    /\ \A db \in DbNames : AtMostOneUnder(appConfig[db], "active")
    /\ Cardinality(emailTable) <= 1 /\ \A r \in emailTable : r.ConfigId = 1
    /\ email_config_get(emailConfig) = cfgLast["emailConfig"]
    /\ mssql_email_config_get(emailTable) = cfgLast["EmailConfig"]
    /\ misc_data_get(miscData) = cfgLast["miscData"]
    /\ \A db \in DbNames : settings_get(appConfig[db]) = cfgLast[db]

\* Every store has been saved to more than once, with different values
C22_Witness ==
    /\ cfgOverwritten = ConfigStores
    /\ \A db \in DbNames : appConfig[db] # {}
    /\ emailConfig # {} /\ emailTable # {} /\ miscData # {}

----------------------------------------------------------------------------
(* Users *)

Usernames == {"u1", "u2"}
Passwords == {"p", "q"}
NoRegistration == [username |-> "none", password |-> "none"]
NoPage == [rendered |-> FALSE]

UsersInit ==
    /\ userDocs = {}
    /\ nextUserId = 1
    /\ upc = [s \in Sessions |-> "idle"]
    /\ uarg = [s \in Sessions |-> NoRegistration]
    /\ ulast = [session |-> "none"]
    /\ upage = NoPage

\* hashlib.sha256(password.encode()).hexdigest(): a different digest per password
hash_password(password) == <<"sha256", password>>

\* insert_one on a collection without the unique index on username
UserInsertNoIndex(coll, doc, id) ==
    [raised |-> "none",
     coll |-> coll \cup {[id |-> id, username |-> doc.username, password |-> doc.password]}]

\* self._users.insert_one(doc) under the unique index on username of __init__
UserInsertOne(coll, doc, id) ==
    IF \E d \in coll : d.username = doc.username
    THEN [raised |-> "DuplicateKeyError", coll |-> coll]
    ELSE [raised |-> "none",
          coll |-> coll \cup {[id |-> id, username |-> doc.username,
                               password |-> doc.password]}]

\* user_get_by_username: find_one({"username": username})
user_get_by_username(coll, username) ==
    IF \E d \in coll : d.username = username
    THEN CHOOSE d \in coll : d.username = username
    ELSE None

\* What a command sent to the server can do besides answering
ServerFailures == {"none", "ServerSelectionTimeoutError"}

\* register_user(repo, username, password) is called
CallRegisterUser(s, username, password) ==
    /\ upc[s] = "idle"
    /\ upc' = [upc EXCEPT ![s] = "reg_check"]
    /\ uarg' = [uarg EXCEPT ![s] = [username |-> username, password |-> password]]
    /\ UNCHANGED <<userDocs, nextUserId, ulast, upage>>
    /\ UNCHANGED <<cacheVars, masterVars, backupVars, restoreVars, activationVars,
                   logoutVars, configVars,
                 reportVars, overlapVars>>

\* register_user returns (success, message); `existed` records whether the
\* username was in the store when this step began
RegisterReturns(s, success, message) ==
    /\ upc' = [upc EXCEPT ![s] = "idle"]
    /\ uarg' = [uarg EXCEPT ![s] = NoRegistration]
    /\ ulast' = [session |-> s, call |-> "register_user", username |-> uarg[s].username,
                 password |-> hash_password(uarg[s].password), success |-> success,
                 message |-> message,
                 existed |-> \E d \in userDocs : d.username = uarg[s].username]

\* auth.py lines 27-29, 44-45
RegisterCheck(s) ==
    /\ upc[s] = "reg_check"
    /\ \E f \in ServerFailures :
         IF f # "none"
         THEN RegisterReturns(s, FALSE, f)
         ELSE IF user_get_by_username(userDocs, uarg[s].username) # None
              THEN RegisterReturns(s, FALSE, "Username already exists")
              ELSE /\ upc' = [upc EXCEPT ![s] = "reg_create"]
                   /\ UNCHANGED <<uarg, ulast>>
    /\ UNCHANGED <<userDocs, nextUserId, upage>>
    /\ UNCHANGED <<cacheVars, masterVars, backupVars, restoreVars, activationVars,
                   logoutVars, configVars,
                 reportVars, overlapVars>>

\* auth.py lines 32-45: hash_password, repo.user_create, the except clause
RegisterCreate(s) ==
    /\ upc[s] = "reg_create"
    /\ nextUserId <= MaxId
    /\ \E f \in ServerFailures :
         IF f # "none"
         THEN /\ RegisterReturns(s, FALSE, f)
              /\ UNCHANGED <<userDocs, nextUserId>>
         ELSE LET r == UserInsertOne(userDocs, [username |-> uarg[s].username,
                                             password |-> hash_password(uarg[s].password)],
                                     nextUserId)
              IN  /\ userDocs' = r.coll
                  /\ IF r.raised = "none"
                     THEN /\ RegisterReturns(s, TRUE, "Registration successful")
                          /\ nextUserId' = nextUserId + 1
                     ELSE /\ RegisterReturns(s, FALSE, r.raised)
                          /\ UNCHANGED nextUserId
    /\ UNCHANGED upage
    /\ UNCHANGED <<cacheVars, masterVars, backupVars, restoreVars, activationVars,
                   logoutVars, configVars,
                 reportVars, overlapVars>>

\* repo.user_create(record) called on its own (mongo_repo.py lines 161-168)
UserCreate(s, username, password) ==
    /\ upc[s] = "idle"
    /\ nextUserId <= MaxId
    /\ LET r == UserInsertOne(userDocs, [username |-> username, password |-> password],
                              nextUserId)
       IN  /\ userDocs' = r.coll
           /\ nextUserId' = IF r.raised = "none" THEN nextUserId + 1 ELSE nextUserId
           /\ ulast' = [session |-> s, call |-> "user_create", username |-> username,
                        password |-> password,
                        success |-> r.raised = "none", message |-> r.raised,
                        existed |-> \E d \in userDocs : d.username = username]
    /\ UNCHANGED <<upc, uarg, upage>>
    /\ UNCHANGED <<cacheVars, masterVars, backupVars, restoreVars, activationVars,
                   logoutVars, configVars,
                 reportVars, overlapVars>>

\* check_users_exist(repo): len(repo.user_list()) > 0, False on any exception
check_users_exist(listed, failure) ==
    [raised |-> "none", value |-> IF failure # "none" THEN FALSE ELSE listed > 0]

\* login_page.py lines 22-41: the tabs of the page. `held` is the number of users
\* in the store and `failed` whether user_list raised, when the page was rendered.
RenderLoginPage ==
    /\ \E f \in ServerFailures :
         LET users_exist == check_users_exist(Cardinality(userDocs), f)
         IN  upage' = IF users_exist.raised # "none"
                      THEN [rendered |-> FALSE, error |-> users_exist.raised]
                      ELSE [rendered |-> TRUE, show_register |-> ~users_exist.value,
                            held |-> Cardinality(userDocs), failed |-> f # "none"]
    /\ UNCHANGED <<userDocs, nextUserId, upc, uarg, ulast>>
    /\ UNCHANGED <<cacheVars, masterVars, backupVars, restoreVars, activationVars,
                   logoutVars, configVars,
                 reportVars, overlapVars>>

UsersNext ==
    \/ \E s \in Sessions, u \in Usernames, p \in Passwords : CallRegisterUser(s, u, p)
    \/ \E s \in Sessions : RegisterCheck(s)
    \/ \E s \in Sessions : RegisterCreate(s)
    \/ \E s \in Sessions, u \in Usernames, p \in Passwords :
         UserCreate(s, u, hash_password(p))
    \/ RenderLoginPage

----------------------------------------------------------------------------
(* Claims about the userDocs *)

UniqueUsernames(coll) == \A d1, d2 \in coll : d1.username = d2.username => d1 = d2

\* C23: the store never holds two users of one username; a register_user or
\* user_create call that ends while its username is in the store reports failure
\* and leaves every user as it was.
C23_UsernameUnique ==
    [][/\ UniqueUsernames(userDocs')
       /\ (ulast' # ulast /\ ulast'.existed) => ~ulast'.success /\ userDocs' = userDocs]_vars

\* Two registrations of one username raced past the check; the index rejected
\* the second insert and the first user's password stands
C23_Witness ==
    /\ ulast.session # "none"
    /\ ulast.call = "register_user"
    /\ ulast.message = "DuplicateKeyError"
    /\ ulast.password = hash_password("q")
    /\ \E d \in userDocs : d.username = ulast.username /\ d.password = hash_password("p")

\* C25: the login page offers first-run registration only when the store holds
\* no user.
C25_RegistrationOnlyWhenNoUsers ==
    (upage.rendered /\ upage.show_register) => upage.held = 0

----------------------------------------------------------------------------
(* Master store: update, delete, lookup by phone number *)

RecordIds == 1..MaxId

\* An update_one on a collection without the unique index
MongoUpdateOneNoIndex(coll, id, doc) ==
    [coll |-> {IF d.id = id THEN WithId(doc, id) ELSE d : d \in coll}, err |-> "none"]

\* update_one({"_id": id}, {"$set": doc}) under the unique index on MobileNo: no
\* document of that _id is no error
MongoUpdateOne(coll, id, doc) ==
    IF ~\E d \in coll : d.id = id THEN [coll |-> coll, err |-> "none"]
    ELSE LET old == CHOOSE d \in coll : d.id = id
         IN  IF Duplicate(coll \ {old}, doc)
             THEN [coll |-> coll, err |-> "DuplicateKeyError"]
             ELSE [coll |-> (coll \ {old}) \cup {WithId(doc, id)}, err |-> "none"]

\* UPDATE [dbo].[Master] SET ... WHERE SrNo = id: MobileNo is NOT NULL UNIQUE; no
\* row of that SrNo is no error. A failure is rolled back and raised again.
MssqlUpdate(table, id, row) ==
    IF ~\E d \in table : d.id = id THEN [coll |-> table, err |-> "none"]
    ELSE LET old == CHOOSE d \in table : d.id = id
         IN  IF row.MobileNo = None \/ Duplicate(table \ {old}, row)
             THEN [coll |-> table, err |-> "IntegrityError"]
             ELSE [coll |-> (table \ {old}) \cup {WithId(row, id)}, err |-> "none"]

\* delete_one({"_id": id}) and DELETE FROM [dbo].[Master] WHERE SrNo = id
DeleteById(coll, id) == {d \in coll : d.id # id}

\* repo.master_update(record_id, record), which returns None
MasterUpdate(record_id, record) ==
    /\ LET res == IF backend = "mongodb"
                  THEN MongoUpdateOne(master, record_id, master_to_doc(record))
                  ELSE MssqlUpdate(master, record_id, master_to_doc(record))
       IN  /\ master' = res.coll
           /\ lastResult' = [status |-> IF res.err = "none" THEN "ok" ELSE res.err,
                             value |-> 0]
    /\ lastCall' = [op |-> "master_update", record_id |-> record_id, record |-> record,
                    found |-> \E d \in master : d.id = record_id]
    /\ UNCHANGED <<backend, nextId>>
    /\ UNCHANGED <<cacheVars, backupVars, restoreVars, activationVars, restVars>>

\* repo.master_delete(record_id), which returns None
MasterDelete(record_id) ==
    /\ master' = DeleteById(master, record_id)
    /\ lastResult' = [status |-> "ok", value |-> 0]
    /\ lastCall' = [op |-> "master_delete", record_id |-> record_id,
                    found |-> \E d \in master : d.id = record_id]
    /\ UNCHANGED <<backend, nextId>>
    /\ UNCHANGED <<cacheVars, backupVars, restoreVars, activationVars, restVars>>

\* The records these calls are given: every phone number that is a text, one name
OpsRecords == {r \in MasterRecords : r.MobileNo # None /\ r.Name = Str(<<"a">>)}

\* The lists a replace_all is called with here: two records at most
ShortLists == UNION {[1..n -> OpsRecords] : n \in 0..2}

MasterOpsNext ==
    \/ \E record \in OpsRecords : MasterCreate(record)
    \/ \E id \in RecordIds, record \in OpsRecords : MasterUpdate(id, record)
    \/ \E id \in RecordIds : MasterDelete(id)
    \/ \E records \in ShortLists : MasterReplaceAll(records)

----------------------------------------------------------------------------
(* Claims about update, delete and lookup *)

\* C24: a master_update or master_delete whose id matches no record ends with a
\* NotFoundError and leaves the store as it was.
C24_MissingIdReported ==
    (lastCall.op \in {"master_update", "master_delete"} /\ ~lastCall.found) =>
        lastResult.status = "NotFoundError"

\* C27: after a master_create of a record with a phone number that succeeded,
\* master_get_by_mobile with the phone number as given returns a record whose
\* phone number is the trimmed input.
C27_LookupAfterCreate ==
    (/\ lastCall.op = "master_create"
     /\ lastResult.status = "ok"
     /\ normalize_str(lastCall.record.MobileNo) # None) =>
        LET got == master_get_by_mobile(master, lastCall.record.MobileNo)
        IN  /\ got # None
            /\ got.MobileNo = Str(Strip(lastCall.record.MobileNo.s))
            /\ got.id = lastResult.value

\* A record was created with blanks around its phone number
C27_Witness ==
    /\ lastCall.op = "master_create"
    /\ lastResult.status = "ok"
    /\ lastCall.record.MobileNo = Str(<<" ", "1", " ">>)
    /\ Cardinality(master) > 1

----------------------------------------------------------------------------
(* Call log and the Reports pages *)

\* The days of the calendar, and the instants of a day: datetime.min.time() is
\* instant 0, datetime.max.time() (23:59:59.999999) is the last one
Days == {1, 2, 3}
TicksPerDay == 4
TicksPerMilli == 2

PickedDate(day) == [t |-> "date", day |-> day]
Datetime(n) == [t |-> "datetime", v |-> n]

\* datetime.combine(date, time)
combine(date, tick) == Datetime(date.day * TicksPerDay + tick)
min_time == 0
max_time == TicksPerDay - 1

Datetimes == {combine(PickedDate(d), k) : d \in Days, k \in 0..max_time}
DayOf(dt) == dt.v \div TicksPerDay

\* A datetime as BSON keeps it: whole milliseconds
BsonDate(dt) == Datetime(dt.v - (dt.v % TicksPerMilli))

\* DateRange(start=..., end=...)
DateRange(start, end) == [start |-> start, end |-> end]

ReportsInit(logs) ==
    /\ calllog \in logs
    /\ nextLogId = 1
    /\ rpage = [rendered |-> FALSE]

\* MongoRepository.calllog_create: Date is the record's when that is a datetime,
\* else utcnow()
CalllogCreate(date_val, now) ==
    /\ nextLogId <= MaxLogs
    /\ calllog' = calllog \cup
          {[id |-> nextLogId,
            Date |-> BsonDate(IF date_val # None THEN date_val ELSE now)]}
    /\ nextLogId' = nextLogId + 1
    /\ UNCHANGED rpage
    /\ UNCHANGED <<cacheVars, masterVars, backupVars, restoreVars, activationVars,
                   logoutVars, configVars, userVars, overlapVars>>

\* MongoRepository.calllog_list(date_range): the documents find(query) yields
calllog_list(coll, date_range) ==
    {d \in coll :
        /\ date_range.start # None => d.Date.v >= BsonDate(date_range.start).v
        /\ date_range.end # None => d.Date.v <= BsonDate(date_range.end).v}

\* repo.calllog_list(*args): the method has one required parameter and reads the
\* attributes of its value
CallCalllogList(coll, args) ==
    IF Len(args) # 1 THEN [err |-> "TypeError", value |-> {}]
    ELSE IF args[1] = None THEN [err |-> "AttributeError", value |-> {}]
    ELSE [err |-> "none", value |-> calllog_list(coll, args[1])]

Rendered(flow, start_date, end_date, status, records) ==
    [rendered |-> TRUE, flow |-> flow, start_date |-> start_date,
     end_date |-> end_date, status |-> status,
     shown |-> {d.id : d \in records}, entries |-> calllog]

\* render_reports_page(repo) of src/views/reports_page.py, with the two date
\* inputs as the user left them
RenderReportsPage(start_date, end_date) ==
    /\ LET all_records == CallCalllogList(calllog, <<>>)
           dr == IF start_date # None /\ end_date # None
                 THEN DateRange(combine(start_date, min_time),
                                combine(end_date, max_time))
                 ELSE None
           df == CallCalllogList(calllog, <<dr>>)
       IN  rpage' =
             IF all_records.err # "none"
             THEN Rendered("views", start_date, end_date, "error", {})
             ELSE IF all_records.value = {}
             THEN Rendered("views", start_date, end_date, "warning", {})
             ELSE IF df.err # "none"
             THEN Rendered("views", start_date, end_date, "error", {})
             ELSE IF df.value # {}
             THEN Rendered("views", start_date, end_date, "ok", df.value)
             ELSE Rendered("views", start_date, end_date, "warning", {})
    /\ UNCHANGED <<calllog, nextLogId>>
    /\ UNCHANGED <<cacheVars, masterVars, backupVars, restoreVars, activationVars,
                   logoutVars, configVars, userVars, overlapVars>>

\* The Reports page of src/app.py
AppReportsPage(start_date, end_date) ==
    /\ LET dr == DateRange(
                   IF start_date # None THEN combine(start_date, min_time) ELSE None,
                   IF end_date # None THEN combine(end_date, max_time) ELSE None)
           df == CallCalllogList(calllog, <<dr>>)
       IN  rpage' =
             IF df.err # "none"
             THEN Rendered("app", start_date, end_date, "error", {})
             ELSE Rendered("app", start_date, end_date, "ok", df.value)
    /\ UNCHANGED <<calllog, nextLogId>>
    /\ UNCHANGED <<cacheVars, masterVars, backupVars, restoreVars, activationVars,
                   logoutVars, configVars, userVars, overlapVars>>

DateInputs == {None} \cup {PickedDate(d) : d \in Days}

ReportsNext ==
    \/ \E date_val \in Datetimes \cup {None}, now \in Datetimes :
          CalllogCreate(date_val, now)
    \/ \E start_date \in DateInputs, end_date \in DateInputs :
          RenderReportsPage(start_date, end_date)
    \/ \E start_date \in DateInputs, end_date \in DateInputs :
          AppReportsPage(start_date, end_date)

----------------------------------------------------------------------------
(* Claims about the reports *)

\* C26: a Reports page rendered with the same day d as start and end date shows
\* exactly the call log entries whose Date falls on day d.
C26_SingleDayRange ==
    (/\ rpage.rendered
     /\ rpage.start_date # None
     /\ rpage.end_date = rpage.start_date) =>
        rpage.shown = {d.id : d \in {e \in rpage.entries :
                                        DayOf(e.Date) = rpage.start_date.day}}

----------------------------------------------------------------------------
(* Backup and restore runs of concurrent sessions *)

\* The runs in progress at once, one per session thread
Runs == {"r1", "r2"}

\* The databases backed up, the backup folder of the settings, and the folders
\* restore archives are picked from
OverlapDbs == {"CallLogDB", "CLM_Backup_Live"}
BackupRoot == "backups"
ZipFolders == {"backups", "downloads"}

NoTempDir == [folder |-> "none", name |-> "none", db |-> "none", stamp |-> 0]
NoRun == [pc |-> "idle", kind |-> "none", dir |-> NoTempDir, result |-> "none"]

\* os.path.join(backup_root, f"temp_{db_name}_{timestamp}"), the timestamp being
\* the second the run started in
temp_dump_dir(db_name, timestamp) ==
    [folder |-> BackupRoot, name |-> "temp", db |-> db_name, stamp |-> timestamp]

\* os.path.join(os.path.dirname(zip_path), "temp_restore_extract")
extract_to(folder) ==
    [folder |-> folder, name |-> "temp_restore_extract", db |-> "none", stamp |-> 0]

OverlapInit ==
    /\ orun = [r \in Runs |-> NoRun]
    /\ ofs = {}
    /\ oharm = {}

DirExists(dir) == \E f \in ofs : f.dir = dir
WrittenBy(dir, r) == {f \in ofs : f.dir # dir} \cup {[dir |-> dir, by |-> r]}
Removed(dir) == {f \in ofs : f.dir # dir}

\* Run r has put its files into its directory and has not finished with them
Using(r) == orun[r].pc \in {"zip", "rmtree", "restore", "rrmtree"}

\* The other runs whose files in dir are lost when run r deletes or overwrites it
Victims(r, dir) ==
    {o \in Runs \ {r} :
        Using(o) /\ orun[o].dir = dir /\ [dir |-> dir, by |-> o] \in ofs}

Ended(r, result) == [orun EXCEPT ![r].pc = "done", ![r].result = result]
Goes(r, to) == [orun EXCEPT ![r].pc = to]

\* the handlers of lines 69-74 and 127-132: rmtree when the directory exists,
\* return False
Handled(r) ==
    /\ ofs' = Removed(orun[r].dir)
    /\ oharm' = oharm \cup Victims(r, orun[r].dir)
    /\ orun' = Ended(r, "failed")

OverlapFrame ==
    UNCHANGED <<cacheVars, masterVars, backupVars, restoreVars, activationVars,
                logoutVars, configVars, userVars, reportVars>>

\* run_mongo_backup, lines 26-40
StartBackup(r, db_name) ==
    /\ orun[r].pc = "idle"
    /\ orun' = [orun EXCEPT ![r] = [pc |-> "dump", kind |-> "backup",
                                    dir |-> temp_dump_dir(db_name, clock),
                                    result |-> "none"]]
    /\ UNCHANGED <<ofs, oharm>>
    /\ OverlapFrame

\* line 53: mongodump writes the collections of the database into --out
Dump(r) ==
    /\ orun[r].pc = "dump"
    /\ ofs' = WrittenBy(orun[r].dir, r)
    /\ oharm' = oharm \cup Victims(r, orun[r].dir)
    /\ orun' = Goes(r, "zip")
    /\ OverlapFrame

\* line 53, mongodump exits with an error
DumpFails(r) ==
    /\ orun[r].pc = "dump"
    /\ Handled(r)
    /\ OverlapFrame

\* line 59: make_archive of the directory
MakeArchive(r) ==
    /\ orun[r].pc = "zip"
    /\ IF DirExists(orun[r].dir)
       THEN orun' = Goes(r, "rmtree") /\ UNCHANGED <<ofs, oharm>>
       ELSE Handled(r)
    /\ OverlapFrame

\* lines 62-67: rmtree of the directory, retention, return True
RemoveDump(r) ==
    /\ orun[r].pc = "rmtree"
    /\ IF DirExists(orun[r].dir)
       THEN /\ ofs' = Removed(orun[r].dir)
            /\ oharm' = oharm \cup Victims(r, orun[r].dir)
            /\ orun' = Ended(r, "ok")
       ELSE Handled(r)
    /\ OverlapFrame

\* run_mongo_restore, lines 89-91, on an archive of folder
StartRestore(r, folder) ==
    /\ orun[r].pc = "idle"
    /\ orun' = [orun EXCEPT ![r] = [pc |-> "clear", kind |-> "restore",
                                    dir |-> extract_to(folder), result |-> "none"]]
    /\ UNCHANGED <<ofs, oharm>>
    /\ OverlapFrame

\* line 95: if os.path.exists(extract_to): shutil.rmtree(extract_to)
ClearExtract(r) ==
    /\ orun[r].pc = "clear"
    /\ ofs' = Removed(orun[r].dir)
    /\ oharm' = oharm \cup Victims(r, orun[r].dir)
    /\ orun' = Goes(r, "extract")
    /\ OverlapFrame

\* lines 96-97: extractall of an archive that holds .bson files
Extract(r) ==
    /\ orun[r].pc = "extract"
    /\ ofs' = WrittenBy(orun[r].dir, r)
    /\ oharm' = oharm \cup Victims(r, orun[r].dir)
    /\ orun' = Goes(r, "restore")
    /\ OverlapFrame

\* lines 101-121: the walk, the listing and mongorestore read the directory
Restore(r) ==
    /\ orun[r].pc = "restore"
    /\ IF DirExists(orun[r].dir)
       THEN orun' = Goes(r, "rrmtree") /\ UNCHANGED <<ofs, oharm>>
       ELSE Handled(r)
    /\ OverlapFrame

\* line 121, mongorestore exits with an error
RestoreFails(r) ==
    /\ orun[r].pc = "restore"
    /\ Handled(r)
    /\ OverlapFrame

\* lines 124-125: rmtree of the directory, return True
RemoveExtract(r) ==
    /\ orun[r].pc = "rrmtree"
    /\ IF DirExists(orun[r].dir)
       THEN /\ ofs' = Removed(orun[r].dir)
            /\ oharm' = oharm \cup Victims(r, orun[r].dir)
            /\ orun' = Ended(r, "ok")
       ELSE Handled(r)
    /\ OverlapFrame

\* the caller has the result; the session may start another run
RunReturns(r) ==
    /\ orun[r].pc = "done"
    /\ orun' = [orun EXCEPT ![r] = NoRun]
    /\ UNCHANGED <<ofs, oharm>>
    /\ OverlapFrame

OverlapNext ==
    \/ Tick
    \/ \E r \in Runs, db_name \in OverlapDbs : StartBackup(r, db_name)
    \/ \E r \in Runs : Dump(r)
    \/ \E r \in Runs : DumpFails(r)
    \/ \E r \in Runs : MakeArchive(r)
    \/ \E r \in Runs : RemoveDump(r)
    \/ \E r \in Runs, folder \in ZipFolders : StartRestore(r, folder)
    \/ \E r \in Runs : ClearExtract(r)
    \/ \E r \in Runs : Extract(r)
    \/ \E r \in Runs : Restore(r)
    \/ \E r \in Runs : RestoreFails(r)
    \/ \E r \in Runs : RemoveExtract(r)
    \/ \E r \in Runs : RunReturns(r)

----------------------------------------------------------------------------
(* Claims about overlapping runs *)

InRun(r) == orun[r].pc \notin {"idle", "done"}

\* C28: two backup runs, or two restore runs, that are in progress at once never
\* have the same temporary directory, and no run deletes or overwrites the
\* files another run is still using.
C28_PrivateTempDirs ==
    /\ \A a, b \in Runs :
          (a # b /\ InRun(a) /\ InRun(b) /\ orun[a].kind = orun[b].kind) =>
              orun[a].dir # orun[b].dir
    /\ oharm = {}

----------------------------------------------------------------------------

\* The sessions of a process connected to MongoDB, the backup tool installed
\* Two databases in use, no master record in either
StoresInUse == {[db \in DbNames |-> StoreOf({}, {"log1"}, {"admin"}, {"cfgA"})]}

InitCache ==
    /\ CacheInit /\ MasterInit({"mongodb"}) /\ BackupInit({TRUE}, {{}})
    /\ RestoreInit(StoresInUse) /\ ActivationInit({None}, {None}, {NoCall})
    /\ LogoutInit({None}) /\ ConfigInit /\ UsersInit
    /\ ReportsInit({{}}) /\ OverlapInit


SpecCache == InitCache /\ [][CacheNext]_vars

\* The master store of either backend
InitMaster ==
    /\ CacheInit /\ MasterInit(Backends) /\ BackupInit({TRUE}, {{}})
    /\ RestoreInit(StoresInUse) /\ ActivationInit({None}, {None}, {NoCall})
    /\ LogoutInit({None}) /\ ConfigInit /\ UsersInit
    /\ ReportsInit({{}}) /\ OverlapInit


SpecMaster == InitMaster /\ [][MasterNext]_vars

\* Backups of a MongoDB database, with or without the bundled mongodump
InitBackup ==
    /\ CacheInit /\ MasterInit({"mongodb"}) /\ BackupInit(BOOLEAN, InitialFolders)
    /\ RestoreInit(StoresInUse) /\ ActivationInit({None}, {None}, {NoCall})
    /\ LogoutInit({None}) /\ ConfigInit /\ UsersInit
    /\ ReportsInit({{}}) /\ OverlapInit


SpecBackup == InitBackup /\ [][BackupNext]_vars

\* Backups and restores with both tools installed, in a folder that also holds
\* .zip files of other origin
InitRestore ==
    /\ CacheInit /\ MasterInit({"mongodb"}) /\ BackupInit({TRUE}, {ForeignZips})
    /\ RestoreInit(InitialStores) /\ ActivationInit({None}, {None}, {NoCall})
    /\ LogoutInit({None}) /\ ConfigInit /\ UsersInit
    /\ ReportsInit({{}}) /\ OverlapInit

SpecRestore == InitRestore /\ [][RestoreNext]_vars

\* verify_key on its own, under every configuration of the secret
InitVerify ==
    /\ CacheInit /\ MasterInit({"mongodb"}) /\ BackupInit({TRUE}, {{}})
    /\ RestoreInit(StoresInUse)
    /\ ActivationInit({NoSecretsFile, None, Str(<<>>), Str(<<"s">>)}, {None, Str(<<"s">>)},
                      VerifyCalls)
    /\ LogoutInit({None}) /\ ConfigInit /\ UsersInit
    /\ ReportsInit({{}}) /\ OverlapInit

SpecVerify == InitVerify /\ [][VerifyNext]_vars

\* Application starts and activations on the machines, the secret configured in
\* the secrets file or not at all
InitActivation ==
    /\ CacheInit /\ MasterInit({"mongodb"}) /\ BackupInit({TRUE}, {{}})
    /\ RestoreInit(StoresInUse)
    /\ ActivationInit({None, Str(<<"s">>)}, {None}, {NoCall})
    /\ LogoutInit({None}) /\ ConfigInit /\ UsersInit
    /\ ReportsInit({{}}) /\ OverlapInit

SpecActivation == InitActivation /\ [][ActivationNext]_vars

\* One connected session logs out, with or without a backup path in its settings
InitLogout ==
    /\ CacheConnected(LogoutSession, "uriA") /\ MasterInit({"mongodb"})
    /\ BackupInit(BOOLEAN, InitialFolders)
    /\ RestoreInit(StoresInUse) /\ ActivationInit({None}, {None}, {NoCall})
    /\ LogoutInit({None, BackupSettings}) /\ ConfigInit /\ UsersInit
    /\ ReportsInit({{}}) /\ OverlapInit

SpecLogout == InitLogout /\ [][LogoutNext]_vars

\* Saves and deletes of the configuration documents
InitConfig ==
    /\ CacheInit /\ MasterInit({"mongodb"}) /\ BackupInit({TRUE}, {{}})
    /\ RestoreInit(StoresInUse) /\ ActivationInit({None}, {None}, {NoCall})
    /\ LogoutInit({None}) /\ ConfigInit /\ UsersInit
    /\ ReportsInit({{}}) /\ OverlapInit

SpecConfig == InitConfig /\ [][ConfigNext]_vars

\* Two sessions register users and open the login page
InitUsers ==
    /\ CacheInit /\ MasterInit({"mongodb"}) /\ BackupInit({TRUE}, {{}})
    /\ RestoreInit(StoresInUse) /\ ActivationInit({None}, {None}, {NoCall})
    /\ LogoutInit({None}) /\ ConfigInit /\ UsersInit
    /\ ReportsInit({{}}) /\ OverlapInit

SpecUsers == InitUsers /\ [][UsersNext]_vars

\* Backup and restore runs of two sessions at once
InitOverlap ==
    /\ CacheInit /\ MasterInit({"mongodb"}) /\ BackupInit({TRUE}, {{}})
    /\ RestoreInit(StoresInUse) /\ ActivationInit({None}, {None}, {NoCall})
    /\ LogoutInit({None}) /\ ConfigInit /\ UsersInit
    /\ ReportsInit({{}}) /\ OverlapInit

SpecOverlap == InitOverlap /\ [][OverlapNext]_vars

\* Call log entries and the two Reports pages
InitReports ==
    /\ CacheInit /\ MasterInit({"mongodb"}) /\ BackupInit({TRUE}, {{}})
    /\ RestoreInit(StoresInUse) /\ ActivationInit({None}, {None}, {NoCall})
    /\ LogoutInit({None}) /\ ConfigInit /\ UsersInit
    /\ ReportsInit({{}}) /\ OverlapInit

SpecReports == InitReports /\ [][ReportsNext]_vars

\* Creates, updates, deletes and replacements on the master store of either backend
SpecMasterOps == InitMaster /\ [][MasterOpsNext]_vars

====
